---- MODULE Spec2Model ----
(***************************************************************************)
(* A model of the RAM intermediate representation (RamOperation.h,         *)
(* RamValue.h), of the translator's ValueIndex and translateValue, and of  *)
(* the per-stratum plan of AstTranslator::translateProgram, of the         *)
(* search-column analysis (RamIndexScanKeys.cpp), of the fixpoint loop of  *)
(* a recursive SCC and of the RAM transformers (RamTransforms.h).          *)
(*                                                                         *)
(* RAM nodes live in a heap of cells, one cell per C++ object; a child     *)
(* pointer (std::unique_ptr) is the address of a cell, 0 is nullptr.       *)
(* Structural facts are read off the heap with Tree, which unfolds an      *)
(* address into the nested term it stands for.                             *)
(***************************************************************************)
EXTENDS Integers, Sequences, FiniteSets, TLC

\* the IR heap and the last IR operation performed on it
VARIABLES heap, heap0, root, cloneRoot, last, kids, calls, eq, steps

\* the ValueIndex of a clause lowering and the last call made on it
VARIABLES ndebug, vindex, refHistory, ilast, ret, nops

irVars == <<heap, heap0, root, cloneRoot, last, kids, calls, eq, steps>>

\* translateProgram: the configuration, the analysed AST program, the
\* position in the loop over the SCCs, the top sequence and the result
VARIABLES config, ast, pcT, pos, index, res, prog

\* translateUnit: the RAM translation unit it returned
VARIABLES unit

\* RamIndexScanKeysAnalysis: the operation asked about, its range pattern
\* and the search columns returned
VARIABLES query, keys

indexVars == <<ndebug, vindex, refHistory, ilast, ret, nops>>

planVars == <<config, ast, pcT, pos, index, res, prog, unit>>

keysVars == <<query, keys>>

\* the fixpoint loop of a recursive SCC: the SCC translated, the statement
\* emitted for it, and its execution: the relations' contents, the position
\* in the statement, the position of every arm of the Parallel block, the
\* iteration, the relations each arm has written, and for every Parallel
\* block completed whether it left every new_ relation empty
VARIABLES recin, rplan, store, pcL, ip, armPos, iter, writes, parEmpty

loopVars == <<recin, rplan, store, pcL, ip, armPos, iter, writes, parEmpty>>

\* the transformer pipeline: the loop nest of the query being transformed,
\* the position in the pipeline (round, next transformer), the reports of
\* the transformers applied so far, the warning raised, and the record of
\* one transformer applied twice in succession to the nest
VARIABLES xq, xpc, xround, xstep, xlog, xwarn, twice

xformVars == <<xq, xpc, xround, xstep, xlog, xwarn, twice>>

vars == <<irVars, indexVars, planVars, keysVars, loopVars, xformVars>>

(***************************************************************************)
(* Bounds of the exploration.                                              *)
(***************************************************************************)
MaxArgs == 2

MaxSteps == 2

(***************************************************************************)
(* Node constructors.  The same records serve as terms (children are       *)
(* terms) and as heap cells (children are addresses).                      *)
(***************************************************************************)
Null == [type |-> "Null"]

Free == [type |-> "Free"]

Number(c) == [type |-> "Number", constant |-> c]

ElementAccess(i, e, n) == [type |-> "ElementAccess", ident |-> i, element |-> e, name |-> n]

Argument(n) == [type |-> "Argument", number |-> n]

Pack(args) == [type |-> "Pack", arguments |-> args]

Intrinsic(o, args) == [type |-> "Intrinsic", operation |-> o, arguments |-> args]

Operator(o, args) == [type |-> "Operator", operation |-> o, arguments |-> args]

Relation(n) == [type |-> "Relation", name |-> n]

Condition(k) == [type |-> "Condition", id |-> k]

Scan(r, ident, nested) ==
    [type |-> "Scan", nestedOperation |-> nested, relation |-> r, identifier |-> ident]

Lookup(nested, val, ar) ==
    [type |-> "Lookup", nestedOperation |-> nested, value |-> val, arity |-> ar]

Aggregate(nested, f, o) ==
    [type |-> "Aggregate", nestedOperation |-> nested, fun |-> f, aggOperation |-> o]

Filter(cond, nested) ==
    [type |-> "Filter", nestedOperation |-> nested, condition |-> cond]

Project(rel, vals) == [type |-> "Project", relation |-> rel, values |-> vals]

Return(vals) == [type |-> "Return", values |-> vals]

NestedTypes == {"Scan", "Lookup", "Aggregate", "Filter"}

ValueTypes == {"Number", "ElementAccess", "Argument", "Pack", "Intrinsic", "Operator"}

OperationTypes == NestedTypes \cup {"Project", "Return"}

(***************************************************************************)
(* The pointer members of a cell, in declaration order (base class first): *)
(* the slots the node owns.  A slot holding 0 is a null pointer.           *)
(***************************************************************************)
Slots(c) ==
    CASE c.type = "Scan" -> <<c.nestedOperation, c.relation>>
      [] c.type = "Lookup" -> <<c.nestedOperation, c.value>>
      [] c.type = "Aggregate" -> <<c.nestedOperation, c.aggOperation>>
      [] c.type = "Filter" -> <<c.nestedOperation, c.condition>>
      [] c.type = "Project" -> <<c.relation>> \o c.values
      [] c.type = "Return" -> c.values
      [] c.type \in {"Pack", "Intrinsic", "Operator"} -> c.arguments
      [] OTHER -> <<>>

SeqRange(s) == {s[i] : i \in 1..Len(s)}

RECURSIVE Reach(_, _)
Reach(h, a) ==
    IF a = 0 THEN {}
    ELSE {a} \cup UNION {Reach(h, b) : b \in SeqRange(Slots(h[a]))}

RECURSIVE Tree(_, _)
Tree(h, a) ==
    IF a = 0 THEN Null
    ELSE LET c == h[a] IN
      CASE c.type = "Scan" ->
             Scan(Tree(h, c.relation), c.identifier, Tree(h, c.nestedOperation))
        [] c.type = "Lookup" ->
             Lookup(Tree(h, c.nestedOperation), Tree(h, c.value), c.arity)
        [] c.type = "Aggregate" ->
             Aggregate(Tree(h, c.nestedOperation), c.fun, Tree(h, c.aggOperation))
        [] c.type = "Filter" ->
             Filter(Tree(h, c.condition), Tree(h, c.nestedOperation))
        [] c.type = "Project" ->
             Project(Tree(h, c.relation), [i \in 1..Len(c.values) |-> Tree(h, c.values[i])])
        [] c.type = "Return" ->
             Return([i \in 1..Len(c.values) |-> Tree(h, c.values[i])])
        [] c.type \in {"Pack", "Intrinsic", "Operator"} ->
             [c EXCEPT !.arguments = [i \in 1..Len(c.arguments) |-> Tree(h, c.arguments[i])]]
        [] OTHER -> c

(***************************************************************************)
(* Allocation (operator new) and construction of a term in the heap.       *)
(***************************************************************************)
Alloc(h, c) == [h |-> Append(h, c), a |-> Len(h) + 1]

RECURSIVE Build(_, _)
RECURSIVE BuildList(_, _, _)
BuildList(h, ts, i) ==
    IF i > Len(ts) THEN [h |-> h, as |-> <<>>]
    ELSE LET x == Build(h, ts[i])
             r == BuildList(x.h, ts, i + 1)
         IN [h |-> r.h, as |-> <<x.a>> \o r.as]

Build(h, t) ==
    CASE t.type = "Null" -> [h |-> h, a |-> 0]
      [] t.type \in NestedTypes ->
           LET s == BuildList(h, Slots(t), 1) IN
           Alloc(s.h,
             CASE t.type = "Scan" -> Scan(s.as[2], t.identifier, s.as[1])
               [] t.type = "Lookup" -> Lookup(s.as[1], s.as[2], t.arity)
               [] t.type = "Aggregate" -> Aggregate(s.as[1], t.fun, s.as[2])
               [] t.type = "Filter" -> Filter(s.as[2], s.as[1]))
      [] t.type = "Project" ->
           LET s == BuildList(h, Slots(t), 1) IN
           Alloc(s.h, Project(s.as[1], SubSeq(s.as, 2, Len(s.as))))
      [] t.type = "Return" ->
           LET s == BuildList(h, t.values, 1) IN Alloc(s.h, Return(s.as))
      [] t.type \in {"Pack", "Intrinsic", "Operator"} ->
           LET s == BuildList(h, t.arguments, 1) IN
           Alloc(s.h, [t EXCEPT !.arguments = s.as])
      [] OTHER -> Alloc(h, t)

(***************************************************************************)
(* getChildNodes, one definition per class (virtual dispatch below).       *)
(***************************************************************************)
NestedGetOperation(c) == c.nestedOperation

AggregateGetOperation(c) == c.aggOperation

NestedGetChildNodes(h, a) == <<h[a].nestedOperation>>

ScanGetChildNodes(h, a) == <<NestedGetOperation(h[a]), h[a].relation>>

LookupGetChildNodes(h, a) == <<NestedGetOperation(h[a]), h[a].value>>

AggregateGetChildNodes(h, a) == <<AggregateGetOperation(h[a]), h[a].aggOperation>>

FilterGetChildNodes(h, a) == <<NestedGetOperation(h[a]), h[a].condition>>

ProjectGetChildNodes(h, a) == <<h[a].relation>> \o h[a].values

ReturnGetChildNodes(h, a) == h[a].values

IntrinsicGetChildNodes(h, a) == h[a].arguments

OperatorGetChildNodes(h, a) == h[a].arguments

PackGetChildNodes(h, a) == SelectSeq(h[a].arguments, LAMBDA x : x # 0)

ValueGetChildNodes(h, a) == <<>>

getChildNodes(h, a) ==
    CASE h[a].type = "Scan" -> ScanGetChildNodes(h, a)
      [] h[a].type = "Lookup" -> LookupGetChildNodes(h, a)
      [] h[a].type = "Aggregate" -> AggregateGetChildNodes(h, a)
      [] h[a].type = "Filter" -> FilterGetChildNodes(h, a)
      [] h[a].type = "Project" -> ProjectGetChildNodes(h, a)
      [] h[a].type = "Return" -> ReturnGetChildNodes(h, a)
      [] h[a].type = "Intrinsic" -> IntrinsicGetChildNodes(h, a)
      [] h[a].type = "Operator" -> OperatorGetChildNodes(h, a)
      [] h[a].type = "Pack" -> PackGetChildNodes(h, a)
      [] OTHER -> ValueGetChildNodes(h, a)

(***************************************************************************)
(* clone, one definition per class.  Each returns the heap after the       *)
(* allocations and the address of the new object.                          *)
(***************************************************************************)
RECURSIVE Clone(_, _)
RECURSIVE CloneList(_, _, _)
CloneList(h, as, i) ==
    IF i > Len(as) THEN [h |-> h, as |-> <<>>]
    ELSE LET x == IF as[i] = 0 THEN [h |-> h, a |-> 0] ELSE Clone(h, as[i])
             r == CloneList(x.h, as, i + 1)
         IN [h |-> r.h, as |-> <<x.a>> \o r.as]

LeafClone(h, a) == Alloc(h, h[a])

\* a copy that shares the relation and the nested operation with the original
ScanCloneShared(h, a) == Alloc(h, Scan(h[a].relation, h[a].identifier, NestedGetOperation(h[a])))

ScanClone(h, a) ==
    LET r == Clone(h, h[a].relation)
        n == Clone(r.h, NestedGetOperation(h[a]))
    IN Alloc(n.h, Scan(r.a, h[a].identifier, n.a))

LookupClone(h, a) ==
    LET n == Clone(h, NestedGetOperation(h[a]))
        v == Clone(n.h, h[a].value)
    IN Alloc(v.h, Lookup(n.a, v.a, h[a].arity))

AggregateClone(h, a) ==
    LET n == Clone(h, AggregateGetOperation(h[a]))
        o == Clone(n.h, h[a].aggOperation)
    IN Alloc(o.h, Aggregate(n.a, h[a].fun, o.a))

FilterClone(h, a) ==
    LET c == Clone(h, h[a].condition)
        n == Clone(c.h, NestedGetOperation(h[a]))
    IN Alloc(n.h, Filter(c.a, n.a))

ProjectClone(h, a) ==
    LET r == Clone(h, h[a].relation)
        vs == CloneList(r.h, h[a].values, 1)
    IN Alloc(vs.h, Project(r.a, vs.as))

ReturnClone(h, a) ==
    LET vs == CloneList(h, h[a].values, 1) IN Alloc(vs.h, Return(vs.as))

IntrinsicClone(h, a) ==
    LET as == CloneList(h, h[a].arguments, 1)
    IN Alloc(as.h, Intrinsic(h[a].operation, as.as))

OperatorClone(h, a) ==
    LET as == CloneList(h, h[a].arguments, 1) IN Alloc(as.h, Pack(as.as))

PackClone(h, a) ==
    LET as == CloneList(h, h[a].arguments, 1) IN Alloc(as.h, Pack(as.as))

Clone(h, a) ==
    CASE h[a].type = "Scan" -> ScanClone(h, a)
      [] h[a].type = "Lookup" -> LookupClone(h, a)
      [] h[a].type = "Aggregate" -> AggregateClone(h, a)
      [] h[a].type = "Filter" -> FilterClone(h, a)
      [] h[a].type = "Project" -> ProjectClone(h, a)
      [] h[a].type = "Return" -> ReturnClone(h, a)
      [] h[a].type = "Intrinsic" -> IntrinsicClone(h, a)
      [] h[a].type = "Operator" -> OperatorClone(h, a)
      [] h[a].type = "Pack" -> PackClone(h, a)
      [] OTHER -> LeafClone(h, a)

(***************************************************************************)
(* Node mappers.  A RamNodeMapper takes ownership of a child and returns   *)
(* its replacement:                                                        *)
(*   "id"    returns the node it was given;                                *)
(*   "repl"  destroys the node it was given (its destructor releases the   *)
(*           whole subtree) and returns a new node of the same category;   *)
(*   "deep"  applies "repl" to the children of the node it was given and   *)
(*           returns that node (a rewrite one level further down).         *)
(***************************************************************************)
Mappers == {"id", "repl", "deep"}

Fresh(type) ==
    CASE type = "Relation" -> Relation("fresh")
      [] type = "Condition" -> Condition(-1)
      [] type \in ValueTypes -> Number(-1)
      [] OTHER -> Return(<<>>)

FreeTree(h, a) == [x \in DOMAIN h |-> IF x \in Reach(h, a) THEN Free ELSE h[x]]

RECURSIVE Apply(_, _, _)
MapCall(h, c, m) ==
    CASE m = "id" -> [h |-> h, a |-> c]
      [] m = "repl" -> Alloc(FreeTree(h, c), Fresh(h[c].type))
      [] m = "deep" -> [h |-> Apply([h |-> h, calls |-> <<>>], c, "repl").h, a |-> c]

\* member = map(std::move(member))
MapField(st, a, f, m) ==
    LET r == MapCall(st.h, st.h[a][f], m)
    IN [h |-> [r.h EXCEPT ![a][f] = r.a],
        calls |-> Append(st.calls, [arg |-> st.h[a][f], ret |-> r.a])]

\* for (auto& cur : member) cur = map(std::move(cur)), from element i on;
\* with guarded, only where cur != nullptr
RECURSIVE MapElems(_, _, _, _, _, _)
MapElems(st, a, f, i, m, guarded) ==
    IF i > Len(st.h[a][f]) THEN st
    ELSE IF guarded /\ st.h[a][f][i] = 0 THEN MapElems(st, a, f, i + 1, m, guarded)
    ELSE LET r == MapCall(st.h, st.h[a][f][i], m)
             st1 == [h |-> [r.h EXCEPT ![a][f][i] = r.a],
                     calls |-> Append(st.calls, [arg |-> st.h[a][f][i], ret |-> r.a])]
         IN MapElems(st1, a, f, i + 1, m, guarded)

NodeApply(st, a, m) == st

\* a nested operation that hands its child to the mapper and drops the result
NestedApplyDropped(st, a, m) ==
    LET r == MapCall(st.h, st.h[a].nestedOperation, m)
    IN [h |-> [r.h EXCEPT ![a].nestedOperation = 0],
        calls |-> Append(st.calls, [arg |-> st.h[a].nestedOperation, ret |-> r.a])]

NestedApply(st, a, m) == MapField(NodeApply(st, a, m), a, "nestedOperation", m)

ScanApply(st, a, m) == MapField(NestedApply(st, a, m), a, "relation", m)

LookupApply(st, a, m) == NestedApply(st, a, m)

AggregateApply(st, a, m) == MapField(NestedApply(st, a, m), a, "aggOperation", m)

FilterApply(st, a, m) == MapField(NestedApply(st, a, m), a, "condition", m)

ProjectApply(st, a, m) == MapElems(MapField(st, a, "relation", m), a, "values", 1, m, FALSE)

ReturnApply(st, a, m) == MapElems(st, a, "values", 1, m, FALSE)

IntrinsicApply(st, a, m) == MapElems(st, a, "arguments", 1, m, FALSE)

OperatorApply(st, a, m) == MapElems(st, a, "arguments", 1, m, FALSE)

PackApply(st, a, m) == MapElems(st, a, "arguments", 1, m, TRUE)

ValueApply(st, a, m) == st

Apply(st, a, m) ==
    CASE st.h[a].type = "Scan" -> ScanApply(st, a, m)
      [] st.h[a].type = "Lookup" -> LookupApply(st, a, m)
      [] st.h[a].type = "Aggregate" -> AggregateApply(st, a, m)
      [] st.h[a].type = "Filter" -> FilterApply(st, a, m)
      [] st.h[a].type = "Project" -> ProjectApply(st, a, m)
      [] st.h[a].type = "Return" -> ReturnApply(st, a, m)
      [] st.h[a].type = "Intrinsic" -> IntrinsicApply(st, a, m)
      [] st.h[a].type = "Operator" -> OperatorApply(st, a, m)
      [] st.h[a].type = "Pack" -> PackApply(st, a, m)
      [] OTHER -> ValueApply(st, a, m)

(***************************************************************************)
(* Structural equality: RamNode::operator== compares the dynamic types and *)
(* then calls the class's equal.                                           *)
(***************************************************************************)
\* the outcomes of a comparison: "T" (true), "F" (false), "X" (the cast
\* that an equal() asserts on has failed)
B3(x) == IF x THEN "T" ELSE "F"

\* x && y, y evaluated only when x is true
And3(x, y) == IF x = "T" THEN y ELSE x

RECURSIVE NodeEq(_, _, _)
RECURSIVE EqualTargetsFrom(_, _, _, _)
EqualTargetsFrom(h, as, bs, i) ==
    IF i > Len(as) THEN "T"
    ELSE And3(IF as[i] = 0 \/ bs[i] = 0 THEN B3(as[i] = bs[i]) ELSE NodeEq(h, as[i], bs[i]),
              EqualTargetsFrom(h, as, bs, i + 1))

EqualTargets(h, as, bs) ==
    IF Len(as) # Len(bs) THEN "F" ELSE EqualTargetsFrom(h, as, bs, 1)

NestedEqual(h, a, b) == NodeEq(h, NestedGetOperation(h[a]), NestedGetOperation(h[b]))

ScanEqual(h, a, b) ==
    And3(NestedEqual(h, a, b),
         And3(B3(h[a].identifier = h[b].identifier),
              NodeEq(h, h[a].relation, h[b].relation)))

LookupEqual(h, a, b) ==
    And3(NestedEqual(h, a, b),
         And3(NodeEq(h, h[a].value, h[b].value),
              B3(h[a].arity = h[b].arity)))

AggregateEqual(h, a, b) ==
    And3(NestedEqual(h, a, b),
         And3(B3(h[a].fun = h[b].fun),
              NodeEq(h, AggregateGetOperation(h[a]), AggregateGetOperation(h[b]))))

FilterEqual(h, a, b) ==
    And3(NodeEq(h, h[a].condition, h[b].condition), NestedEqual(h, a, b))

ProjectEqual(h, a, b) ==
    And3(NodeEq(h, h[a].relation, h[b].relation),
         EqualTargets(h, h[a].values, h[b].values))

ReturnEqual(h, a, b) == EqualTargets(h, h[a].values, h[b].values)

IntrinsicEqual(h, a, b) ==
    And3(B3(h[a].operation = h[b].operation),
         EqualTargets(h, h[a].arguments, h[b].arguments))

\* assert(nullptr != dynamic_cast<const RamPack*>(&node)), node a RamOperator
OperatorEqual(h, a, b) ==
    IF h[b].type # "Pack" THEN "X"
    ELSE And3(B3(h[a].operation = h[b].operation),
              EqualTargets(h, h[a].arguments, h[b].arguments))

ElementAccessEqual(h, a, b) ==
    B3(/\ h[a].ident = h[b].ident
       /\ h[a].element = h[b].element
       /\ h[a].name = h[b].name)

NumberEqual(h, a, b) == B3(h[a].constant = h[b].constant)

PackEqual(h, a, b) == EqualTargets(h, h[a].arguments, h[b].arguments)

ArgumentEqual(h, a, b) == B3(h[a].number = h[b].number)

RelationEqual(h, a, b) == B3(h[a].name = h[b].name)

ConditionEqual(h, a, b) == B3(h[a].id = h[b].id)

NodeEq(h, a, b) ==
    IF h[a].type # h[b].type THEN "F"
    ELSE CASE h[a].type = "Scan" -> ScanEqual(h, a, b)
           [] h[a].type = "Lookup" -> LookupEqual(h, a, b)
           [] h[a].type = "Aggregate" -> AggregateEqual(h, a, b)
           [] h[a].type = "Filter" -> FilterEqual(h, a, b)
           [] h[a].type = "Project" -> ProjectEqual(h, a, b)
           [] h[a].type = "Return" -> ReturnEqual(h, a, b)
           [] h[a].type = "Intrinsic" -> IntrinsicEqual(h, a, b)
           [] h[a].type = "Operator" -> OperatorEqual(h, a, b)
           [] h[a].type = "ElementAccess" -> ElementAccessEqual(h, a, b)
           [] h[a].type = "Number" -> NumberEqual(h, a, b)
           [] h[a].type = "Pack" -> PackEqual(h, a, b)
           [] h[a].type = "Argument" -> ArgumentEqual(h, a, b)
           [] h[a].type = "Relation" -> RelationEqual(h, a, b)
           [] h[a].type = "Condition" -> ConditionEqual(h, a, b)
           [] OTHER -> "F"

\* what the caller of a == b observes: with assert compiled out a failed
\* cast is followed by a static_cast to an unrelated class
EqOutcomes(h, a, b, nd) ==
    IF NodeEq(h, a, b) = "X"
    THEN IF nd THEN {"T", "F", "crash"} ELSE {"abort"}
    ELSE {NodeEq(h, a, b)}

(***************************************************************************)
(* The ValueIndex (AstTranslator.h).                                       *)
(*                                                                         *)
(* ndebug is the build: with NDEBUG defined assert() expands to nothing    *)
(* and execution continues past a failed check.                            *)
(***************************************************************************)
Location(l, c, n) == [level |-> l, component |-> c, name |-> n]

\* Location::operator==
LocEq(a, b) == a.level = b.level /\ a.component = b.component

\* Location::operator<
LocLess(a, b) == a.level < b.level \/ (a.level = b.level /\ a.component < b.component)

\* an assignment where the insertion is: the set holds the last location only
SetInsertOverwrite(S, l) == {l}

\* std::set<Location>::insert: no effect when an equivalent element is present
SetInsert(S, l) ==
    IF \E e \in S : ~LocLess(e, l) /\ ~LocLess(l, e) THEN S ELSE S \cup {l}

\* the greatest element of a non-empty set instead of the least
SetRBegin(S) == CHOOSE e \in S : \A o \in S : ~LocLess(e, o)

\* *std::set<Location>::begin(), of a non-empty set
SetBegin(S) == CHOOSE e \in S : \A o \in S : ~LocLess(o, e)

MapPut(f, k, v) == [x \in DOMAIN f \cup {k} |-> IF x = k THEN v ELSE f[x]]

EmptyMap == [x \in {} |-> 0]

\* ValueIndex(): every map empty
EmptyIndex ==
    [var_references |-> EmptyMap,
     record_definitions |-> EmptyMap,
     record_unpacks |-> EmptyMap,
     aggregator_locations |-> <<>>]

\* static Location fail;  /  Location()
FailLocation == Location(0, 0, "")

addVarReference(idx, var, l) ==
    [idx EXCEPT !.var_references =
        MapPut(@, var, SetInsert(IF var \in DOMAIN @ THEN @[var] ELSE {}, l))]

isDefined(idx, var) == var \in DOMAIN idx.var_references

\* record_definitions.insert({&init, l}): no effect when the key is present
setRecordDefinitionInsert(idx, init, l) ==
    IF init \in DOMAIN idx.record_definitions THEN idx
    ELSE [idx EXCEPT !.record_definitions = MapPut(@, init, l)]

setRecordDefinition(idx, init, l) ==
    [idx EXCEPT !.record_definitions = MapPut(@, init, l)]

setRecordUnpackLevel(idx, init, lvl) ==
    [idx EXCEPT !.record_unpacks = MapPut(@, init, lvl)]

setAggregatorLocation(idx, agg, loc) ==
    [idx EXCEPT !.aggregator_locations = Append(@, [agg |-> agg, loc |-> loc])]

IdleIndex ==
    /\ vindex = EmptyIndex
    /\ refHistory = EmptyMap
    /\ ilast = [op |-> "new"]
    /\ ret = [kind |-> "none"]
    /\ nops = 0

\* outcomes of a call: a returned value, a failed assert (abort), or a crash
Val(x) == [kind |-> "value", val |-> x]

Abort == [kind |-> "abort"]

Crash == [kind |-> "crash"]

Levels == {0, 1}

\* the locations recorded: two that differ only in the name, and others that
\* differ in level and in component
Locations ==
    {Location(0, 0, ""), Location(0, 0, "n"), Location(0, 1, ""), Location(1, 0, "")}

\* getDefinitionPoint(const AstVariable&): dereferencing end() when the
\* assert is compiled out is undefined: any Location, or a crash
getDefinitionPoint(idx, var, nd) ==
    IF var \in DOMAIN idx.var_references
    THEN {Val(SetBegin(idx.var_references[var]))}
    ELSE IF ~nd THEN {Abort}
    ELSE {Crash} \cup {Val(l) : l \in Locations}

\* getDefinitionPoint(const AstRecordInit&)
getRecordDefinitionPoint(idx, init, nd) ==
    IF init \in DOMAIN idx.record_definitions
    THEN {Val(idx.record_definitions[init])}
    ELSE IF ~nd THEN {Abort}
    ELSE {Val(FailLocation)}

getRecordUnpackLevel(idx, init, nd) ==
    IF init \in DOMAIN idx.record_unpacks
    THEN {Val(idx.record_unpacks[init])}
    ELSE IF ~nd THEN {Abort}
    ELSE {Val(0)}

\* the aggregators compared by address (cur.first == &agg)
getAggregatorLocationByAddress(idx, agg, nd) ==
    LET hits == {i \in 1..Len(idx.aggregator_locations) :
                    idx.aggregator_locations[i].agg = agg}
    IN IF hits # {}
       THEN {Val(idx.aggregator_locations[CHOOSE i \in hits : \A j \in hits : i <= j].loc)}
       ELSE IF ~nd THEN {Abort}
       ELSE {Val(FailLocation)}

\* the aggregators are compared by value (*cur.first == agg)
getAggregatorLocation(idx, agg, nd) ==
    LET hits == {i \in 1..Len(idx.aggregator_locations) :
                    idx.aggregator_locations[i].agg.val = agg.val}
    IN IF hits # {}
       THEN {Val(idx.aggregator_locations[CHOOSE i \in hits : \A j \in hits : i <= j].loc)}
       ELSE IF ~nd THEN {Abort}
       ELSE {Val(FailLocation)}

(***************************************************************************)
(* translateValue: the AST arguments and the ValueTranslator's visitors.   *)
(***************************************************************************)
AstVariable(n) == [type |-> "Variable", name |-> n]

AstUnnamedVariable == [type |-> "UnnamedVariable"]

AstConstant(i) == [type |-> "Constant", index |-> i]

AstRecordInit(id, args) == [type |-> "RecordInit", id |-> id, arguments |-> args]

AstAggregator(id, v) == [type |-> "Aggregator", id |-> id, val |-> v]

AstSubroutineArgument(n) == [type |-> "SubroutineArgument", number |-> n]

\* the arguments whose visitors are commented out in ValueTranslator
AstUnaryFunctor(f, operand) == [type |-> "UnaryFunctor", fun |-> f, args |-> <<operand>>]

AstBinaryFunctor(f, lhs, rhs) == [type |-> "BinaryFunctor", fun |-> f, args |-> <<lhs, rhs>>]

AstTernaryFunctor(f, a0, a1, a2) ==
    [type |-> "TernaryFunctor", fun |-> f, args |-> <<a0, a1, a2>>]

AstCounter == [type |-> "Counter"]

UnsupportedTypes == {"UnaryFunctor", "BinaryFunctor", "TernaryFunctor", "Counter"}

ToElementAccess(outs) ==
    {IF o.kind = "value"
       THEN Val(ElementAccess(o.val.level, o.val.component, o.val.name))
       ELSE o : o \in outs}

visitVariable(var, idx, nd) ==
    IF ~isDefined(idx, var.name) /\ ~nd THEN {Abort}
    ELSE ToElementAccess(getDefinitionPoint(idx, var.name, nd))

visitUnnamedVariable(var, idx, nd) == {Val(Null)}

visitConstant(c, idx, nd) == {Val(Number(c.index))}

visitAggregator(agg, idx, nd) == ToElementAccess(getAggregatorLocation(idx, agg, nd))

visitSubroutineArgument(subArg, idx, nd) == {Val(Argument(subArg.number))}

\* no override in ValueTranslator: the visitor's base case, which returns a
\* default-constructed result, the null std::unique_ptr<RamValue>
visitNode(node, idx, nd) == {Val(Null)}

RECURSIVE translateValue(_, _, _)
\* the values pushed for arguments i.. of a record, after those in done
RECURSIVE visitRecordInitFrom(_, _, _, _, _)
visitRecordInitFrom(init, i, done, idx, nd) ==
    IF i > Len(init.arguments) THEN {Val(Pack(done))}
    ELSE UNION {IF o.kind = "value"
                  THEN visitRecordInitFrom(init, i + 1, Append(done, o.val), idx, nd)
                  ELSE {o} : o \in translateValue(init.arguments[i], idx, nd)}

visitRecordInit(init, idx, nd) == visitRecordInitFrom(init, 1, <<>>, idx, nd)

translateValue(arg, idx, nd) ==
    CASE arg.type = "Variable" -> visitVariable(arg, idx, nd)
      [] arg.type = "UnnamedVariable" -> visitUnnamedVariable(arg, idx, nd)
      [] arg.type = "Constant" -> visitConstant(arg, idx, nd)
      [] arg.type = "RecordInit" -> visitRecordInit(arg, idx, nd)
      [] arg.type = "Aggregator" -> visitAggregator(arg, idx, nd)
      [] arg.type = "SubroutineArgument" -> visitSubroutineArgument(arg, idx, nd)
      [] OTHER -> visitNode(arg, idx, nd)

IdleIR ==
    /\ heap = <<>>
    /\ heap0 = <<>>
    /\ root = 0
    /\ cloneRoot = 0
    /\ last = [op |-> "idle", target |-> 0, mapper |-> "id"]
    /\ kids = <<>>
    /\ calls = <<>>
    /\ eq = [other |-> Null, result |-> "none"]
    /\ steps = 0

(***************************************************************************)
(* translateProgram (AstTranslator.cpp): RAM statements and the analyses   *)
(* the translator reads.                                                   *)
(***************************************************************************)
RamCreate(r, prefix) == [kind |-> "Create", rel |-> r, prefix |-> prefix]

RamLoad(r, dir, ext) == [kind |-> "Load", rel |-> r, dir |-> dir, ext |-> ext]

RamPrintSize(r) == [kind |-> "PrintSize", rel |-> r]

RamStore(r, dir, ext) == [kind |-> "Store", rel |-> r, dir |-> dir, ext |-> ext]

RamDrop(r) == [kind |-> "Drop", rel |-> r]

RamStratum(body, i) == [kind |-> "Stratum", body |-> body, index |-> i]

RamSequence(stmts) == [kind |-> "Sequence", stmts |-> stmts]

RamLogTimer(stmt, label) == [kind |-> "LogTimer", stmt |-> stmt, label |-> label]

RamProgram(main, subs) == [main |-> main, subroutines |-> subs]

\* the elements of set S in the order ord lists them: the iteration order
\* of a std::set of relation pointers
InOrder(S, ord) == SelectSeq(ord, LAMBDA r : r \in S)

Perms(S) == {p \in [1..Cardinality(S) -> S] : \A r \in S : \E i \in DOMAIN p : p[i] = r}

\* SCCGraph
getNumberOfSCCs(a) == Len(a.order)

isRecursive(a, scc) == Cardinality(scc) > 1 \/ scc \subseteq a.selfRec

getInternalRelations(a, scc) == scc

getInternalInputRelations(a, scc) == scc \cap a.inputs

getInternalOutputRelations(a, scc) == scc \cap a.outputs

ExternalPredecessors(a, scc) == {e[1] : e \in {d \in a.depends : d[2] \in scc /\ d[1] \notin scc}}

getExternalOutputPredecessorRelations(a, scc) == ExternalPredecessors(a, scc) \cap a.outputs

getExternalNonOutputPredecessorRelations(a, scc) == ExternalPredecessors(a, scc) \ a.outputs

getInternalNonOutputRelationsWithExternalSuccessors(a, scc) ==
    {r \in scc \ a.outputs : \E d \in a.depends : d[1] = r /\ d[2] \notin scc}

\* a schedule of which only the first entry is ever read
ExpiredFirst(a, i) == a.expiry[1]

\* RelationSchedule: the relations expired at position i of the order
Expired(a, i) == a.expiry[i]

\* creates that give every relation its delta_ and new_ relations, recursive
\* or not, after all the relations themselves
CreateStmtsAuxLast(a, scc, ord) ==
    LET rels == InOrder(getInternalRelations(a, scc), ord)
    IN [i \in 1..Len(rels) |-> RamCreate(rels[i], "")]
         \o [i \in 1..Len(rels) |-> RamCreate(rels[i], "delta_")]
         \o [i \in 1..Len(rels) |-> RamCreate(rels[i], "new_")]

\* appendStmt(current, makeRam...(relation)) for each relation, in order
CreateStmts(a, scc, ord) ==
    LET rels == InOrder(getInternalRelations(a, scc), ord)
        one(r) == IF isRecursive(a, scc)
                    THEN <<RamCreate(r, ""), RamCreate(r, "delta_"), RamCreate(r, "new_")>>
                    ELSE <<RamCreate(r, "")>>
        F[i \in 0..Len(rels)] == IF i = 0 THEN <<>> ELSE F[i - 1] \o one(rels[i])
    IN F[Len(rels)]

Each(S, ord, mk(_)) ==
    LET rels == InOrder(S, ord) IN [i \in 1..Len(rels) |-> mk(rels[i])]

LoadInternStmts(a, scc, ord) ==
    Each(getInternalInputRelations(a, scc), ord, LAMBDA r : RamLoad(r, "fact-dir", ".facts"))

\* loads of the external predecessors that do not ask for an engine
LoadExternStmtsAlways(a, c, scc, ord) ==
    Each(getExternalOutputPredecessorRelations(a, scc), ord,
         LAMBDA r : RamLoad(r, "output-dir", ".csv"))
      \o Each(getExternalNonOutputPredecessorRelations(a, scc), ord,
              LAMBDA r : RamLoad(r, "output-dir", ".facts"))

LoadExternStmts(a, c, scc, ord) ==
    IF c.engine
    THEN Each(getExternalOutputPredecessorRelations(a, scc), ord,
              LAMBDA r : RamLoad(r, "output-dir", ".csv"))
           \o Each(getExternalNonOutputPredecessorRelations(a, scc), ord,
                   LAMBDA r : RamLoad(r, "output-dir", ".facts"))
    ELSE <<>>

BodyStmt(a, scc, ord) ==
    <<[kind |-> "Body", recursive |-> isRecursive(a, scc),
       rels |-> IF isRecursive(a, scc) THEN scc ELSE {InOrder(scc, ord)[1]}]>>

PrintSizeStmts(a, scc, ord) ==
    Each(getInternalRelations(a, scc) \cap a.printsize, ord, LAMBDA r : RamPrintSize(r))

\* the stores for the successors written with the outputs' .csv extension
StoreExternStmtsCsv(a, c, scc, ord) ==
    IF c.engine
    THEN Each(getInternalNonOutputRelationsWithExternalSuccessors(a, scc), ord,
              LAMBDA r : RamStore(r, "output-dir", ".csv"))
    ELSE <<>>

StoreExternStmts(a, c, scc, ord) ==
    IF c.engine
    THEN Each(getInternalNonOutputRelationsWithExternalSuccessors(a, scc), ord,
              LAMBDA r : RamStore(r, "output-dir", ".facts"))
    ELSE <<>>

StoreOutputStmts(a, scc, ord) ==
    Each(getInternalOutputRelations(a, scc), ord, LAMBDA r : RamStore(r, "output-dir", ".csv"))

\* drops that follow the expiry schedule whether or not an engine is set
DropStmtsExpiredOnly(a, c, scc, i, ord) ==
    IF ~c.provenance THEN Each(Expired(a, i), ord, LAMBDA r : RamDrop(r)) ELSE <<>>

\* drops that are emitted with provenance as without
DropStmtsAlways(a, c, scc, i, ord) ==
    IF c.engine
    THEN Each(getInternalRelations(a, scc), ord, LAMBDA r : RamDrop(r))
           \o Each(getExternalOutputPredecessorRelations(a, scc), ord, LAMBDA r : RamDrop(r))
           \o Each(getExternalNonOutputPredecessorRelations(a, scc), ord, LAMBDA r : RamDrop(r))
    ELSE Each(Expired(a, i), ord, LAMBDA r : RamDrop(r))

DropStmts(a, c, scc, i, ord) ==
    IF ~c.provenance
    THEN IF c.engine
         THEN Each(getInternalRelations(a, scc), ord, LAMBDA r : RamDrop(r))
                \o Each(getExternalOutputPredecessorRelations(a, scc), ord, LAMBDA r : RamDrop(r))
                \o Each(getExternalNonOutputPredecessorRelations(a, scc), ord,
                        LAMBDA r : RamDrop(r))
         ELSE Each(Expired(a, i), ord, LAMBDA r : RamDrop(r))
    ELSE <<>>

\* a stratum that drops its relations before it stores them
StratumStmtsDropFirst(a, c, scc, i, ord) ==
    CreateStmts(a, scc, ord)
      \o LoadInternStmts(a, scc, ord)
      \o LoadExternStmts(a, c, scc, ord)
      \o BodyStmt(a, scc, ord)
      \o PrintSizeStmts(a, scc, ord)
      \o DropStmts(a, c, scc, i, ord)
      \o StoreExternStmts(a, c, scc, ord)
      \o StoreOutputStmts(a, scc, ord)

\* the statements accumulated in current by one iteration of the loop
StratumStmts(a, c, scc, i, ord) ==
    CreateStmts(a, scc, ord)
      \o LoadInternStmts(a, scc, ord)
      \o LoadExternStmts(a, c, scc, ord)
      \o BodyStmt(a, scc, ord)
      \o PrintSizeStmts(a, scc, ord)
      \o StoreExternStmts(a, c, scc, ord)
      \o StoreOutputStmts(a, scc, ord)
      \o DropStmts(a, c, scc, i, ord)

\* translateUnit has not returned
NoUnit == [kind |-> "none"]

IdlePlan ==
    /\ config = [engine |-> FALSE, provenance |-> FALSE, profile |-> FALSE]
    /\ ast = [order |-> <<>>]
    /\ pcT = "idle"
    /\ pos = 0
    /\ index = 0
    /\ res = <<>>
    /\ prog = [main |-> Null, subroutines |-> {}]
    /\ unit = NoUnit

\* no range pattern has been asked about
IdleKeys ==
    /\ query = [kind |-> "none"]
    /\ keys = [kind |-> "none"]

IdleLoop ==
    /\ recin = <<>>
    /\ rplan = <<>>
    /\ store = <<>>
    /\ pcL = "idle"
    /\ ip = 0
    /\ armPos = <<>>
    /\ iter = 0
    /\ writes = {}
    /\ parEmpty = <<>>

IdleXform ==
    /\ xq = <<>>
    /\ xpc = "idle"
    /\ xround = 0
    /\ xstep = 0
    /\ xlog = <<>>
    /\ xwarn = FALSE
    /\ twice = [kind |-> "none"]

(***************************************************************************)
(* The trees the exploration starts from.                                  *)
(***************************************************************************)
SeqsUpTo(S, n) == UNION {[1..k -> S] : k \in 0..n}

TupleIds == {0, 1}

Columns == {0, 1}

Labels == {"", "x"}

RelNames == {"A", "B"}

LeafValues ==
    {Number(c) : c \in {0, 1}}
      \cup {ElementAccess(i, e, n) : i \in TupleIds, e \in Columns, n \in Labels}
      \cup {Argument(k) : k \in {0, 1}}

ArgValues == {Number(0), ElementAccess(0, 0, "")}

Packs == {Pack(s) : s \in SeqsUpTo(ArgValues \cup {Null}, MaxArgs)}

Intrinsics == {Intrinsic(o, s) : o \in {"ADD", "NEG"}, s \in SeqsUpTo(ArgValues, MaxArgs) \ {<<>>}}

Operators == {Operator(o, s) : o \in {"ADD", "NEG"}, s \in SeqsUpTo(ArgValues, MaxArgs) \ {<<>>}}

Values == LeafValues \cup Packs \cup Intrinsics \cup Operators

Projects == {Project(Relation(r), s) : r \in RelNames, s \in SeqsUpTo(ArgValues, MaxArgs)}

Returns == {Return(s) : s \in SeqsUpTo(ArgValues, MaxArgs)}

InnerOps == {Project(Relation("A"), <<ElementAccess(0, 0, "")>>), Return(<<Number(0)>>)}

Scans == {Scan(Relation(r), i, n) : r \in RelNames, i \in TupleIds, n \in InnerOps}

Lookups == {Lookup(n, v, ar) : n \in InnerOps, v \in ArgValues \cup {Pack(<<Null, Number(0)>>)}, ar \in {1, 2}}

Aggregates == {Aggregate(n, f, o) : n \in InnerOps, f \in {"MAX", "MIN", "COUNT", "SUM"}, o \in InnerOps}

Filters == {Filter(Condition(k), n) : k \in {0, 1}, n \in InnerOps}

DeepOps ==
    {Scan(Relation("A"), 1, n) : n \in
        {Filter(Condition(0), Return(<<Number(0)>>)),
         Aggregate(Return(<<Number(0)>>), "MIN", Project(Relation("A"), <<Number(0)>>)),
         Lookup(Return(<<Number(0)>>), Pack(<<Null, Number(0)>>), 2)}}

Trees ==
    Values \cup Projects \cup Returns \cup Scans \cup Lookups \cup Aggregates
      \cup Filters \cup DeepOps

(***************************************************************************)
(* State machine over the heap: a tree n is constructed (Init), then       *)
(* cloned, rewritten through apply, enumerated and compared.               *)
(***************************************************************************)
NoOp == [op |-> "new", target |-> 0, mapper |-> "id"]

NoEq == [other |-> Null, result |-> "none"]

InitIR ==
    /\ \E t \in Trees :
          LET b == Build(<<>>, t) IN
          /\ heap = b.h
          /\ heap0 = b.h
          /\ root = b.a
    /\ cloneRoot = 0
    /\ last = NoOp
    /\ kids = <<>>
    /\ calls = <<>>
    /\ eq = NoEq
    /\ steps = 0
    /\ ndebug \in BOOLEAN
    /\ IdleIndex
    /\ IdlePlan
    /\ IdleKeys
    /\ IdleLoop
    /\ IdleXform

Targets == {root, cloneRoot} \ {0}

Mutable == last.op \in {"new", "clone", "apply"} /\ steps < MaxSteps

\* n->clone()
DoClone ==
    /\ Mutable
    /\ cloneRoot = 0
    /\ LET r == Clone(heap, root) IN
          /\ heap' = r.h
          /\ cloneRoot' = r.a
    /\ heap0' = heap
    /\ last' = [op |-> "clone", target |-> root, mapper |-> "id"]
    /\ steps' = steps + 1
    /\ UNCHANGED <<root, kids, calls, eq>>
    /\ UNCHANGED <<indexVars, planVars, keysVars, loopVars, xformVars>>

\* target->apply(m)
DoApply ==
    /\ Mutable
    /\ \E a \in Targets, m \in Mappers :
          LET r == Apply([h |-> heap, calls |-> <<>>], a, m) IN
          /\ heap' = r.h
          /\ calls' = r.calls
          /\ last' = [op |-> "apply", target |-> a, mapper |-> m]
    /\ heap0' = heap
    /\ steps' = steps + 1
    /\ UNCHANGED <<root, cloneRoot, kids, eq>>
    /\ UNCHANGED <<indexVars, planVars, keysVars, loopVars, xformVars>>

\* target->getChildNodes()
DoChildren ==
    /\ last.op \in {"new", "clone", "apply"}
    /\ \E a \in Targets :
          /\ kids' = getChildNodes(heap, a)
          /\ last' = [op |-> "children", target |-> a, mapper |-> "id"]
    /\ heap0' = heap
    /\ UNCHANGED <<heap, root, cloneRoot, calls, eq, steps>>
    /\ UNCHANGED <<indexVars, planVars, keysVars, loopVars, xformVars>>

\* *n == *other, for a second tree other
DoEqual ==
    /\ last.op = "new"
    /\ \E t \in Trees :
          LET b == Build(heap, t) IN
          \E r \in EqOutcomes(b.h, root, b.a, ndebug) : eq' = [other |-> t, result |-> r]
    /\ last' = [op |-> "equal", target |-> root, mapper |-> "id"]
    /\ heap0' = heap
    /\ UNCHANGED <<heap, root, cloneRoot, kids, calls, steps>>
    /\ UNCHANGED <<indexVars, planVars, keysVars, loopVars, xformVars>>

NextIR == DoClone \/ DoApply \/ DoChildren \/ DoEqual

SpecIR == InitIR /\ [][NextIR]_vars

(***************************************************************************)
(* Properties of the IR operations.                                        *)
(***************************************************************************)
Count(s, x) == Cardinality({i \in 1..Len(s) : s[i] = x})

Owned(c) == SelectSeq(Slots(c), LAMBDA x : x # 0)

\* C1: for every node n of every variant, clone(n) is structurally equal to
\* n: same variant, same scalar attributes, every child slot equal (by the
\* term the heap holds and by the code's own equality).
C1_CloneIsEqual ==
    last.op = "clone" =>
        /\ Tree(heap, cloneRoot) = Tree(heap0, root)
        /\ NodeEq(heap, root, cloneRoot) = "T"

\* C2: apply(mapper) passes every child the node owns through the mapper
\* exactly once and stores the result back in the slot the child came from.
C2_ApplyMapsEveryOwnedChild ==
    last.op = "apply" =>
        LET old == Slots(heap0[last.target])
            new == Slots(heap[last.target])
        IN /\ Len(new) = Len(old)
           /\ Len(calls) = Len(Owned(heap0[last.target]))
           /\ \A i \in 1..Len(old) :
                 old[i] # 0 =>
                    \E j \in 1..Len(calls) :
                       /\ calls[j].arg = old[i]
                       /\ calls[j].ret = new[i]
                       /\ \A k \in 1..Len(calls) : calls[k].arg = old[i] => k = j

\* C3: children(n) enumerates every directly owned non-null child of n
\* exactly once and nothing else (for an Aggregate: the nested operation and
\* the aggregate-source operation; for a Pack: its concrete slots only).
C3_ChildrenExactlyOnce ==
    last.op = "children" =>
        /\ \A c \in SeqRange(Owned(heap[last.target])) : Count(kids, c) = 1
        /\ SeqRange(kids) \subseteq SeqRange(Owned(heap[last.target]))

\* C4: structural equality is exact: two nodes compare equal if and only if
\* they are the same variant with pairwise equal scalar attributes and child
\* slots, that is, if and only if they unfold to the same term; tuple ids
\* are compared concretely.
C4_EqualIsExact ==
    last.op = "equal" =>
        /\ eq.result \in {"T", "F"}
        /\ eq.result = "T" <=> Tree(heap, root) = eq.other

\* C5: applying the identity mapper leaves the tree structurally equal to
\* the tree before the call (wildcard slots of a Pack stay wildcards in
\* place).
C5_IdentityMapper ==
    (last.op = "apply" /\ last.mapper = "id") =>
        /\ Tree(heap, last.target) = Tree(heap0, last.target)
        /\ heap = heap0

C5_Witness ==
    /\ last.op = "apply"
    /\ last.mapper = "id"
    /\ heap[last.target].type = "Pack"
    /\ 0 \in SeqRange(heap[last.target].arguments)
    /\ Len(calls) > 0

\* C6: clone(n) shares no node with n: the two trees occupy disjoint cells,
\* and applying a mapper to one of them, replacing children at any depth,
\* leaves every cell of the other as it was.
C6_CloneSharesNothing ==
    /\ last.op = "clone" => Reach(heap, root) \cap Reach(heap, cloneRoot) = {}
    /\ (last.op = "apply" /\ cloneRoot # 0) =>
          LET other == IF last.target = root THEN cloneRoot ELSE root
          IN \A x \in Reach(heap0, other) : heap[x] = heap0[x]

C6_Witness ==
    /\ last.op = "apply"
    /\ last.target = cloneRoot
    /\ last.mapper = "deep"
    /\ heap[cloneRoot].type = "Scan"
    /\ \E x \in DOMAIN heap0 : heap[x] = Free /\ heap0[x] # Free

(***************************************************************************)
(* State machine of a ValueIndex: references, record definitions, unpack   *)
(* levels and aggregator locations are recorded, then looked up or used by *)
(* translateValue.  A lookup ends the run: it either returns or stops the  *)
(* process.                                                                *)
(***************************************************************************)
MaxIndexOps == 3

VarNames == {"x", "y"}

RecordIds == {"r1", "r2"}

RecLocations == {Location(0, 1, ""), Location(1, 1, "n")}

Aggregators == {AstAggregator(1, "p"), AstAggregator(2, "p"), AstAggregator(3, "q")}

AstArgs ==
    {AstVariable(v) : v \in VarNames}
      \cup {AstUnnamedVariable, AstConstant(1), AstSubroutineArgument(0)}
      \cup {AstRecordInit("r1", <<AstVariable("x"), AstUnnamedVariable>>),
            AstRecordInit("r2", <<AstConstant(0), AstVariable("y")>>)}
      \cup {AstAggregator(1, "p"), AstAggregator(3, "q")}
      \cup {AstUnaryFunctor("neg", AstVariable("x")),
            AstBinaryFunctor("add", AstVariable("x"), AstConstant(1)),
            AstTernaryFunctor("substr", AstVariable("x"), AstConstant(0), AstConstant(1)),
            AstCounter}

InitIndex ==
    /\ ndebug \in BOOLEAN
    /\ vindex = EmptyIndex
    /\ refHistory = EmptyMap
    /\ ilast = [op |-> "new"]
    /\ ret = [kind |-> "none"]
    /\ nops = 0
    /\ IdleIR
    /\ IdlePlan
    /\ IdleKeys
    /\ IdleLoop
    /\ IdleXform

Recording == ret.kind = "none" /\ nops < MaxIndexOps

AddVarReference ==
    /\ Recording
    /\ \E v \in VarNames, l \in Locations :
          /\ vindex' = addVarReference(vindex, v, l)
          /\ refHistory' = MapPut(refHistory, v,
                Append(IF v \in DOMAIN refHistory THEN refHistory[v] ELSE <<>>, l))
          /\ ilast' = [op |-> "addVarReference", key |-> v, loc |-> l]
    /\ nops' = nops + 1
    /\ UNCHANGED <<ndebug, ret>>
    /\ UNCHANGED <<irVars, planVars, keysVars, loopVars, xformVars>>

SetRecordDefinition ==
    /\ Recording
    /\ \E r \in RecordIds, l \in RecLocations :
          /\ vindex' = setRecordDefinition(vindex, r, l)
          /\ ilast' = [op |-> "setRecordDefinition", key |-> r, loc |-> l,
                        old |-> IF r \in DOMAIN vindex.record_definitions
                                THEN <<vindex.record_definitions[r]>> ELSE <<>>]
    /\ nops' = nops + 1
    /\ UNCHANGED <<ndebug, refHistory, ret>>
    /\ UNCHANGED <<irVars, planVars, keysVars, loopVars, xformVars>>

SetRecordUnpackLevel ==
    /\ Recording
    /\ \E r \in RecordIds, lvl \in Levels :
          /\ vindex' = setRecordUnpackLevel(vindex, r, lvl)
          /\ ilast' = [op |-> "setRecordUnpackLevel", key |-> r, level |-> lvl]
    /\ nops' = nops + 1
    /\ UNCHANGED <<ndebug, refHistory, ret>>
    /\ UNCHANGED <<irVars, planVars, keysVars, loopVars, xformVars>>

SetAggregatorLocation ==
    /\ Recording
    /\ \E a \in Aggregators, l \in RecLocations :
          /\ vindex' = setAggregatorLocation(vindex, a, l)
          /\ ilast' = [op |-> "setAggregatorLocation", key |-> a, loc |-> l]
    /\ nops' = nops + 1
    /\ UNCHANGED <<ndebug, refHistory, ret>>
    /\ UNCHANGED <<irVars, planVars, keysVars, loopVars, xformVars>>

GetDefinitionPoint ==
    /\ ret.kind = "none"
    /\ \E v \in VarNames :
          /\ ret' \in getDefinitionPoint(vindex, v, ndebug)
          /\ ilast' = [op |-> "getDefinitionPoint", key |-> v]
    /\ UNCHANGED <<ndebug, vindex, refHistory, nops>>
    /\ UNCHANGED <<irVars, planVars, keysVars, loopVars, xformVars>>

GetRecordDefinitionPoint ==
    /\ ret.kind = "none"
    /\ \E r \in RecordIds :
          /\ ret' \in getRecordDefinitionPoint(vindex, r, ndebug)
          /\ ilast' = [op |-> "getRecordDefinitionPoint", key |-> r]
    /\ UNCHANGED <<ndebug, vindex, refHistory, nops>>
    /\ UNCHANGED <<irVars, planVars, keysVars, loopVars, xformVars>>

GetRecordUnpackLevel ==
    /\ ret.kind = "none"
    /\ \E r \in RecordIds :
          /\ ret' \in getRecordUnpackLevel(vindex, r, ndebug)
          /\ ilast' = [op |-> "getRecordUnpackLevel", key |-> r]
    /\ UNCHANGED <<ndebug, vindex, refHistory, nops>>
    /\ UNCHANGED <<irVars, planVars, keysVars, loopVars, xformVars>>

GetAggregatorLocation ==
    /\ ret.kind = "none"
    /\ \E a \in Aggregators :
          /\ ret' \in getAggregatorLocation(vindex, a, ndebug)
          /\ ilast' = [op |-> "getAggregatorLocation", key |-> a]
    /\ UNCHANGED <<ndebug, vindex, refHistory, nops>>
    /\ UNCHANGED <<irVars, planVars, keysVars, loopVars, xformVars>>

\* translateValue(arg, index), and translateValue(arg) with the default
\* argument index = ValueIndex()
TranslateValue ==
    /\ ret.kind = "none"
    /\ \E arg \in AstArgs, dflt \in BOOLEAN :
          /\ ret' \in translateValue(arg, IF dflt THEN EmptyIndex ELSE vindex, ndebug)
          /\ ilast' = [op |-> "translateValue", key |-> arg, dflt |-> dflt]
    /\ UNCHANGED <<ndebug, vindex, refHistory, nops>>
    /\ UNCHANGED <<irVars, planVars, keysVars, loopVars, xformVars>>

NextIndex ==
    \/ AddVarReference
    \/ SetRecordDefinition
    \/ SetRecordUnpackLevel
    \/ SetAggregatorLocation
    \/ GetDefinitionPoint
    \/ GetRecordDefinitionPoint
    \/ GetRecordUnpackLevel
    \/ GetAggregatorLocation
    \/ TranslateValue

SpecIndex == InitIndex /\ [][NextIndex]_vars

(***************************************************************************)
(* Properties of the ValueIndex and of translateValue.                     *)
(***************************************************************************)
\* the index of the first of the locations recorded for a variable that no
\* other recorded location precedes in (level, component) order
LeastIndex(hs) ==
    CHOOSE i \in 1..Len(hs) :
       /\ \A j \in 1..Len(hs) : ~LocLess(hs[j], hs[i])
       /\ \A j \in 1..(i - 1) : LocLess(hs[i], hs[j])

\* C7 (as stated): the definition point of a variable is its first recorded
\* occurrence: getDefinitionPoint(v) returns the Location passed to the
\* earliest addVarReference call for v, whatever later calls passed.
C7_FirstOccurrence ==
    (ilast.op = "getDefinitionPoint" /\ ilast.key \in DOMAIN refHistory) =>
        ret = Val(refHistory[ilast.key][1])

\* C7 (amended): getDefinitionPoint(v) returns the Location with the
\* smallest (level, column) among those passed to addVarReference for v, and
\* of several with that level and column the one passed first; it is the
\* earliest call's Location only when no later call passed a smaller one.
C7_LeastOccurrence ==
    (ilast.op = "getDefinitionPoint" /\ ilast.key \in DOMAIN refHistory) =>
        LET hs == refHistory[ilast.key] IN
        /\ ret = Val(hs[LeastIndex(hs)])
        /\ (\A j \in 1..Len(hs) : ~LocLess(hs[j], hs[1])) => ret = Val(hs[1])

C7_Witness ==
    /\ ilast.op = "getDefinitionPoint"
    /\ ilast.key \in DOMAIN refHistory
    /\ Len(refHistory[ilast.key]) >= 2
    /\ ret.kind = "value"
    /\ ret.val # refHistory[ilast.key][1]

\* C8: ValueIndex lookups never fail silently: getDefinitionPoint for a
\* variable or record with no recorded definition, getRecordUnpackLevel for
\* a record with no recorded level and getAggregatorLocation for an
\* aggregator with no recorded location signal a fatal invariant violation
\* and return nothing to the caller.
C8_LookupsNeverFailSilently ==
    /\ (ilast.op = "getDefinitionPoint" /\ ilast.key \notin DOMAIN vindex.var_references)
          => ret.kind # "value"
    /\ (ilast.op = "getRecordDefinitionPoint"
          /\ ilast.key \notin DOMAIN vindex.record_definitions) => ret.kind # "value"
    /\ (ilast.op = "getRecordUnpackLevel" /\ ilast.key \notin DOMAIN vindex.record_unpacks)
          => ret.kind # "value"
    /\ (ilast.op = "getAggregatorLocation"
          /\ \A i \in 1..Len(vindex.aggregator_locations) :
                vindex.aggregator_locations[i].agg.val # ilast.key.val) => ret.kind # "value"

\* C9: translateValue on a variable v emits ElementAccess(l, c) for v's
\* definition point (l, c) in the index passed in, a location recorded for v
\* by addVarReference; for a variable with no recorded reference in that
\* index (the default empty index included) it emits no value.
C9_VariableTranslation ==
    (ilast.op = "translateValue" /\ ilast.key.type = "Variable") =>
        LET idx == IF ilast.dflt THEN EmptyIndex ELSE vindex
            v == ilast.key.name
        IN IF v \in DOMAIN idx.var_references
           THEN \E i \in 1..Len(refHistory[v]) :
                   LET l == refHistory[v][i] IN
                   /\ ret = Val(ElementAccess(l.level, l.component, l.name))
                   /\ \A j \in 1..Len(refHistory[v]) : ~LocLess(refHistory[v][j], l)
           ELSE ret.kind # "value"


(***************************************************************************)
(* translateProgram as a state machine: one step for the early return on   *)
(* an empty SCC graph, one per iteration of the loop over the topological  *)
(* order, one for the profile wrapper and the provenance subroutines.      *)
(***************************************************************************)
Rels == {"A", "B", "C"}

\* SCC graphs with their topological order and the dependencies between
\* relations (an edge <<p, s>>: s depends on p)
Graphs ==
    { [order |-> <<>>, depends |-> {}],
      [order |-> <<{"A"}>>, depends |-> {}],
      [order |-> <<{"A", "B"}>>, depends |-> {<<"A", "B">>, <<"B", "A">>}],
      [order |-> <<{"A"}, {"B"}>>, depends |-> {}],
      [order |-> <<{"A"}, {"B"}>>, depends |-> {<<"A", "B">>}],
      [order |-> <<{"A"}, {"B"}, {"C"}>>, depends |-> {<<"A", "B">>, <<"B", "C">>}],
      [order |-> <<{"A", "B"}, {"C"}>>,
       depends |-> {<<"A", "B">>, <<"B", "A">>, <<"B", "C">>}],
      [order |-> <<{"A", "B"}, {"C"}>>,
       depends |-> {<<"A", "B">>, <<"B", "A">>, <<"A", "C">>, <<"B", "C">>}] }

RelsOf(g) == UNION {g.order[i] : i \in DOMAIN g.order}

\* RelationSchedule: a relation expires with its own stratum, or with the
\* next one
ExpiryOptions(g) ==
    { [i \in DOMAIN g.order |-> g.order[i]],
      [i \in DOMAIN g.order |-> IF i = 1 THEN {} ELSE g.order[i - 1]] }

\* the orders in which a std::set of relation pointers may iterate
Orders == Perms(Rels)

Configs == [engine : BOOLEAN, provenance : BOOLEAN, profile : BOOLEAN]

\* the clauses of the program: every relation has a fact, a relation that
\* is not an input has two rules, an output relation has an @info relation
\* with a fact and a rule
Clauses(a) ==
    UNION { { [head |-> r, info |-> FALSE, num |-> 0, bodyEmpty |-> TRUE] }
              \cup (IF r \in a.inputs THEN {}
                    ELSE { [head |-> r, info |-> FALSE, num |-> 1, bodyEmpty |-> FALSE],
                           [head |-> r, info |-> FALSE, num |-> 2, bodyEmpty |-> FALSE] })
              \cup (IF r \notin a.outputs THEN {}
                    ELSE { [head |-> r \o "@info_1", info |-> TRUE, num |-> 0,
                            bodyEmpty |-> TRUE],
                           [head |-> r \o "@info_1", info |-> TRUE, num |-> 1,
                            bodyEmpty |-> FALSE] })
            : r \in RelsOf(a) }

\* relName.str() + "_" + std::to_string(clause.getClauseNum()) + "_subproof"
subroutineLabel(cl) == cl.head \o "_" \o ToString(cl.num) \o "_subproof"

\* a subroutine for every clause, facts and @info clauses included
SubroutinesAllClauses(a) ==
    { [label |-> subroutineLabel(cl), clause |-> cl] : cl \in Clauses(a) }

\* the subroutines added for the clauses the visitor does not skip
Subroutines(a) ==
    { [label |-> subroutineLabel(cl), clause |-> cl]
      : cl \in {c \in Clauses(a) : ~(c.info \/ c.bodyEmpty)} }

InitPlan ==
    /\ config \in Configs
    /\ \E g \in Graphs :
         \E ins \in SUBSET RelsOf(g), outs \in SUBSET RelsOf(g) :
           \E ps \in {{}, RelsOf(g)}, sr \in {{}, RelsOf(g)}, ex \in ExpiryOptions(g) :
             ast = [order |-> g.order, depends |-> g.depends, inputs |-> ins,
                    outputs |-> outs, printsize |-> ps, selfRec |-> sr, expiry |-> ex]
    /\ pcT = "start"
    /\ pos = 1
    /\ index = 0
    /\ res = RamSequence(<<>>)
    /\ prog = [main |-> Null, subroutines |-> {}]
    /\ unit = NoUnit
    /\ IdleIR
    /\ IdleIndex
    /\ IdleKeys
    /\ IdleLoop
    /\ IdleXform
    /\ ndebug = FALSE

\* translateUnit: ramProg is initialised to nullptr and never assigned; the
\* debug report gets a ram-program section only if (ramProg), and is written
\* out when a debug-report file is configured and the report is not empty
translateUnit(a, c, debugFile, reportEmpty) ==
    LET ramProg == Null
    IN [kind |-> "RamTranslationUnit",
        program |-> ramProg,
        ramSection |-> debugFile /\ ramProg # Null,
        reportWritten |-> debugFile /\ ~reportEmpty]

\* an early return that still wraps the sequence in the main timer
ReturnEmptyTimed ==
    /\ pcT = "start"
    /\ getNumberOfSCCs(ast) = 0
    /\ prog' = RamProgram(IF config.profile THEN RamLogTimer(res, "runtime") ELSE res, {})
    /\ pcT' = "done"
    /\ UNCHANGED <<config, ast, pos, index, res, unit, irVars, indexVars, keysVars, loopVars, xformVars>>

\* lines 356-359: the empty SCC graph
ReturnEmpty ==
    /\ pcT = "start"
    /\ getNumberOfSCCs(ast) = 0
    /\ prog' = RamProgram(res, {})
    /\ pcT' = "done"
    /\ UNCHANGED <<config, ast, pos, index, res, unit, irVars, indexVars, keysVars, loopVars, xformVars>>

\* lines 365-515: one iteration of the loop over sccOrder
TranslateSCC ==
    /\ pcT \in {"start", "loop"}
    /\ getNumberOfSCCs(ast) > 0
    /\ pos <= Len(ast.order)
    /\ \E ord \in Orders :
         LET current == StratumStmts(ast, config, ast.order[pos], index + 1, ord)
         IN IF current # <<>>
            THEN /\ res' = RamSequence(Append(res.stmts, RamStratum(current, index)))
                 /\ index' = index + 1
            ELSE UNCHANGED <<res, index>>
    /\ pos' = pos + 1
    /\ pcT' = "loop"
    /\ UNCHANGED <<config, ast, prog, unit, irVars, indexVars, keysVars, loopVars, xformVars>>

\* lines 517-542: the main timer, the program, the subroutines
FinishProgram ==
    /\ pcT \in {"start", "loop"}
    /\ getNumberOfSCCs(ast) > 0
    /\ pos > Len(ast.order)
    /\ LET main == IF config.profile THEN RamLogTimer(res, "runtime") ELSE res
       IN prog' = RamProgram(main, IF config.provenance THEN Subroutines(ast) ELSE {})
    /\ pcT' = "done"
    /\ UNCHANGED <<config, ast, pos, index, res, unit, irVars, indexVars, keysVars, loopVars, xformVars>>

\* lines 545-573: translateUnit(tu), on the unit translateProgram was run on
TranslateUnit ==
    /\ pcT = "done"
    /\ unit = NoUnit
    /\ \E debugFile \in BOOLEAN, reportEmpty \in BOOLEAN :
          unit' = translateUnit(ast, config, debugFile, reportEmpty)
    /\ UNCHANGED <<config, ast, pcT, pos, index, res, prog, irVars, indexVars, keysVars, loopVars, xformVars>>

NextPlan == ReturnEmpty \/ TranslateSCC \/ FinishProgram \/ TranslateUnit

SpecPlan == InitPlan /\ [][NextPlan]_vars

(***************************************************************************)
(* Properties of translateProgram.                                         *)
(***************************************************************************)
Strata == IF pcT = "idle" THEN <<>> ELSE res.stmts

\* the phase a statement of a stratum belongs to
Phase(s) ==
    CASE s.kind = "Create" -> 1
      [] s.kind = "Load" /\ s.dir = "fact-dir" -> 2
      [] s.kind = "Load" /\ s.dir = "output-dir" -> 3
      [] s.kind = "Body" -> 4
      [] s.kind = "PrintSize" -> 5
      [] s.kind = "Store" /\ s.ext = ".facts" -> 6
      [] s.kind = "Store" /\ s.ext = ".csv" -> 7
      [] s.kind = "Drop" -> 8
      [] OTHER -> 0

PhasesOf(st) == {Phase(st.body[i]) : i \in DOMAIN st.body}

\* C10: in every stratum the statements come in the order Creates, Loads
\* from the fact directory, Loads from the output directory (only with an
\* engine), one body statement, PrintSizes, Stores of .facts (only with an
\* engine), Stores of .csv, Drops, whatever the engine, provenance and
\* profile settings are.
C10_PhaseOrder ==
    \A k \in DOMAIN Strata :
      LET b == Strata[k].body
      IN /\ \A i, j \in DOMAIN b : i < j => Phase(b[i]) <= Phase(b[j])
         /\ \A i \in DOMAIN b : Phase(b[i]) \in 1..8
         /\ Cardinality({i \in DOMAIN b : b[i].kind = "Body"}) = 1
         /\ ~config.engine => PhasesOf(Strata[k]) \cap {3, 6} = {}

C10_Witness ==
    /\ pcT = "done"
    /\ config.engine
    /\ \E k \in DOMAIN Strata : PhasesOf(Strata[k]) = {1, 2, 3, 4, 5, 6, 8}
    /\ \E k \in DOMAIN Strata : 7 \in PhasesOf(Strata[k])

\* the relations of the statements of kind k in a stratum
RelsOfKind(st, k) == {st.body[i].rel : i \in {j \in DOMAIN st.body : st.body[j].kind = k}}

\* C11: strata are emitted one per SCC in the topological order; the k-th
\* SCC (counting from 0) is wrapped in Stratum(k) and uses entry k of the
\* expiry schedule; the indices in the top sequence are 0, 1, ..., n-1.
C11_StrataInOrder ==
    pcT # "idle" =>
        /\ Len(Strata) = pos - 1
        /\ pcT = "done" => Len(Strata) = Len(ast.order)
        /\ \A k \in DOMAIN Strata :
              /\ Strata[k].kind = "Stratum"
              /\ Strata[k].index = k - 1
              /\ RelsOfKind(Strata[k], "Create") = ast.order[k]
              /\ (~config.provenance /\ ~config.engine)
                    => RelsOfKind(Strata[k], "Drop") = ast.expiry[k]

C11_Witness ==
    /\ pcT = "done"
    /\ Len(Strata) = 3
    /\ ~config.provenance
    /\ ~config.engine
    /\ ast.expiry[2] # ast.expiry[3]
    /\ RelsOfKind(Strata[3], "Drop") = ast.expiry[3]
    /\ ast.expiry[3] # {}


\* the number of statements of kind k on relation r in a stratum
CountOf(st, k, r) ==
    Cardinality({i \in DOMAIN st.body : st.body[i].kind = k /\ st.body[i].rel = r})

\* C12: with provenance disabled the Drops of a stratum are exactly: with an
\* engine, one per internal relation, per external output predecessor and
\* per external non-output predecessor of the SCC; without an engine, one
\* per relation of the stratum's expiry entry, and no others.
C12_DropsExact ==
    (pcT # "idle" /\ ~config.provenance) =>
        \A k \in DOMAIN Strata :
            LET scc == ast.order[k]
                dropped == IF config.engine
                           THEN getInternalRelations(ast, scc)
                                  \cup getExternalOutputPredecessorRelations(ast, scc)
                                  \cup getExternalNonOutputPredecessorRelations(ast, scc)
                           ELSE ast.expiry[k]
            IN \A r \in Rels :
                  CountOf(Strata[k], "Drop", r) = IF r \in dropped THEN 1 ELSE 0

C12_Witness ==
    /\ pcT = "done"
    /\ ~config.provenance
    /\ config.engine
    /\ Len(Strata) = 2
    /\ getExternalOutputPredecessorRelations(ast, ast.order[2]) # {}
    /\ getExternalNonOutputPredecessorRelations(ast, ast.order[2]) # {}
    /\ RelsOfKind(Strata[2], "Drop") = Rels
    /\ ast.expiry[2] # Rels


\* C13: with the provenance option present no stratum contains a Drop,
\* whether or not an engine is set and whatever the expiry schedule holds.
C13_ProvenanceKeepsRelations ==
    (pcT # "idle" /\ config.provenance) =>
        \A k \in DOMAIN Strata : RelsOfKind(Strata[k], "Drop") = {}

C13_Witness ==
    /\ pcT = "done"
    /\ config.provenance
    /\ config.engine
    /\ Len(Strata) = 3
    /\ \A k \in DOMAIN Strata : ast.expiry[k] # {} \/ k = 1
    /\ \A k \in DOMAIN Strata : RelsOfKind(Strata[k], "Drop") = {}


\* the positions of the Creates of relation r with prefix p in a stratum
CreatesAt(st, r, p) ==
    {i \in DOMAIN st.body :
        st.body[i].kind = "Create" /\ st.body[i].rel = r /\ st.body[i].prefix = p}

\* C14: for every internal relation R of an SCC the stratum has exactly one
\* Create of R; in a recursive SCC also exactly one Create of delta_R and
\* one of new_R, right after R's Create; in a non-recursive SCC no Create of
\* a delta_ or new_ relation. Relations outside the SCC are not created.
C14_Creates ==
    pcT # "idle" =>
        \A k \in DOMAIN Strata :
            LET st == Strata[k]
                scc == ast.order[k]
            IN \A r \in Rels :
                  IF r \notin getInternalRelations(ast, scc)
                  THEN \A p \in {"", "delta_", "new_"} : CreatesAt(st, r, p) = {}
                  ELSE /\ Cardinality(CreatesAt(st, r, "")) = 1
                       /\ IF isRecursive(ast, scc)
                          THEN \E i \in CreatesAt(st, r, "") :
                                  /\ CreatesAt(st, r, "delta_") = {i + 1}
                                  /\ CreatesAt(st, r, "new_") = {i + 2}
                          ELSE /\ CreatesAt(st, r, "delta_") = {}
                               /\ CreatesAt(st, r, "new_") = {}

C14_Witness ==
    /\ pcT = "done"
    /\ Len(Strata) = 2
    /\ isRecursive(ast, ast.order[1])
    /\ ~isRecursive(ast, ast.order[2])
    /\ Cardinality(ast.order[1]) = 2
    /\ \A r \in ast.order[1] : CreatesAt(Strata[1], r, "new_") # {}
    /\ \A r \in ast.order[2] : CreatesAt(Strata[2], r, "") # {}


\* the statements of kind k in a stratum, and how many there are
StmtsOfKind(st, k) == {st.body[i] : i \in {j \in DOMAIN st.body : st.body[j].kind = k}}

NumOfKind(st, k) == Cardinality({i \in DOMAIN st.body : st.body[i].kind = k})

\* C15: Loads of external predecessors (output predecessors from output-dir
\* with .csv, non-output predecessors from output-dir with .facts) and
\* Stores of internal non-output relations with external successors
\* (.facts) are emitted if and only if the engine option is present; Loads
\* of internal inputs (fact-dir, .facts) and Stores of internal outputs
\* (output-dir, .csv) are emitted with and without it.
C15_EngineLoadsAndStores ==
    pcT # "idle" =>
        \A k \in DOMAIN Strata :
            LET st == Strata[k]
                scc == ast.order[k]
                internLoads == {RamLoad(r, "fact-dir", ".facts") :
                                  r \in getInternalInputRelations(ast, scc)}
                externLoads ==
                    {RamLoad(r, "output-dir", ".csv") :
                        r \in getExternalOutputPredecessorRelations(ast, scc)}
                      \cup {RamLoad(r, "output-dir", ".facts") :
                              r \in getExternalNonOutputPredecessorRelations(ast, scc)}
                outStores == {RamStore(r, "output-dir", ".csv") :
                                r \in getInternalOutputRelations(ast, scc)}
                externStores ==
                    {RamStore(r, "output-dir", ".facts") :
                        r \in getInternalNonOutputRelationsWithExternalSuccessors(ast, scc)}
                loads == internLoads \cup (IF config.engine THEN externLoads ELSE {})
                stores == outStores \cup (IF config.engine THEN externStores ELSE {})
            IN /\ StmtsOfKind(st, "Load") = loads
               /\ NumOfKind(st, "Load") = Cardinality(loads)
               /\ StmtsOfKind(st, "Store") = stores
               /\ NumOfKind(st, "Store") = Cardinality(stores)

C15_Witness ==
    /\ pcT = "done"
    /\ config.engine
    /\ Len(Strata) = 3
    /\ RamStore("A", "output-dir", ".csv") \in StmtsOfKind(Strata[1], "Store")
    /\ RamLoad("A", "output-dir", ".csv") \in StmtsOfKind(Strata[2], "Load")
    /\ RamLoad("B", "fact-dir", ".facts") \in StmtsOfKind(Strata[2], "Load")
    /\ RamStore("B", "output-dir", ".facts") \in StmtsOfKind(Strata[2], "Store")
    /\ RamLoad("B", "output-dir", ".facts") \in StmtsOfKind(Strata[3], "Load")

\* without an engine only the internal loads and the output stores remain
C15_WitnessNoEngine ==
    /\ pcT = "done"
    /\ ~config.engine
    /\ Len(Strata) = 3
    /\ getExternalOutputPredecessorRelations(ast, ast.order[2]) # {}
    /\ StmtsOfKind(Strata[2], "Load") = {RamLoad("B", "fact-dir", ".facts")}
    /\ StmtsOfKind(Strata[2], "Store") = {RamStore("B", "output-dir", ".csv")}


\* C16: translateUnit returns a RAM translation unit whose program is the
\* program translateProgram produces for the same AST unit: a non-null
\* RamProgram whose main statement holds the Sequence of Stratum statements.
C16_UnitWrapsProgram ==
    unit # NoUnit =>
        /\ unit.program # Null
        /\ unit.program = prog


\* C17: for an AST whose SCC graph has no SCCs translateProgram returns a
\* program whose main statement is one empty Sequence, with no Stratum and
\* no subroutines.
C17_EmptyProgram ==
    (pcT = "done" /\ getNumberOfSCCs(ast) = 0) =>
        /\ prog.main = RamSequence(<<>>)
        /\ prog.subroutines = {}

C17_Witness ==
    /\ pcT = "done"
    /\ getNumberOfSCCs(ast) = 0
    /\ config.profile
    /\ config.provenance
    /\ prog = RamProgram(RamSequence(<<>>), {})

\* C18: whenever the profile option is present the main statement of the
\* program is a LogTimer labelled runtime that wraps the top sequence, for
\* every input program, one with no SCCs included; without the option the
\* main statement is the bare Sequence.
C18_ProfileTimer ==
    pcT = "done" =>
        prog.main = IF config.profile THEN RamLogTimer(res, "runtime") ELSE res


\* C19: with provenance enabled the subroutine map holds exactly one
\* subroutine labelled <rel>_<clauseNum>_subproof for each clause that has a
\* body literal and whose head is not an info relation, and nothing else;
\* without provenance the map is empty.
C19_Subroutines ==
    pcT = "done" =>
        IF config.provenance
        THEN LET wanted == {cl \in Clauses(ast) : ~cl.bodyEmpty /\ ~cl.info}
             IN /\ \A cl \in wanted :
                      Cardinality({sr \in prog.subroutines :
                          sr.label = cl.head \o "_" \o ToString(cl.num) \o "_subproof"}) = 1
                /\ \A sr \in prog.subroutines :
                      /\ sr.clause \in wanted
                      /\ sr.label = sr.clause.head \o "_" \o ToString(sr.clause.num)
                                      \o "_subproof"
        ELSE prog.subroutines = {}

C19_Witness ==
    /\ pcT = "done"
    /\ config.provenance
    /\ Cardinality(prog.subroutines) = 4
    /\ \E sr \in prog.subroutines : sr.label = "B_2_subproof"
    /\ \E cl \in Clauses(ast) : cl.info /\ ~cl.bodyEmpty
    /\ \E cl \in Clauses(ast) : ~cl.info /\ cl.bodyEmpty


(***************************************************************************)
(* RamIndexScanKeysAnalysis (RamIndexScanKeys.cpp): the search columns of  *)
(* a range pattern. A value of an integer type is the set of the positions *)
(* of its one bits: int has IntBits bits, SearchColumns has KeyBits.       *)
(***************************************************************************)
IntBits == 32

KeyBits == 64

\* the widest short pattern; every pattern up to this width is explored
MaxCols == 3

\* widths around the width of int, and the slots of such patterns that may
\* be concrete
WideSizes == {IntBits - 1, IntBits, IntBits + 1}

WideSlots == {0, 1, IntBits - 2, IntBits - 1, IntBits}

\* a range pattern: its size and the indices i with rangePattern[i] != nullptr
RangePattern(n, concrete) == [size |-> n, concrete |-> concrete]

RangePatterns ==
    {RangePattern(n, c) : n \in 0..MaxCols, c \in SUBSET (0..(MaxCols - 1))}
      \cup {RangePattern(n, c) : n \in WideSizes, c \in SUBSET WideSlots}

ValidPatterns == {p \in RangePatterns : p.concrete \subseteq 0..(p.size - 1)}

\* 1 << i in int: bit i below the sign bit; the sign bit for i = IntBits - 1;
\* undefined for i >= IntBits (the count taken modulo the width, or zero)
ShiftLeftOne(i) ==
    IF i < IntBits THEN {{i}} ELSE {{i % IntBits}, {}}

\* the conversion of an int to SearchColumns extends the sign bit
ToSearchColumns(bits) ==
    IF (IntBits - 1) \in bits THEN bits \cup ((IntBits - 1)..(KeyBits - 1)) ELSE bits

\* the loop of getRangeQueryColumnsHelper from index i on: the values keys
\* can end with
RECURSIVE getRangeQueryColumnsFrom(_, _, _)
getRangeQueryColumnsFrom(p, i, k) ==
    IF i >= p.size THEN {k}
    ELSE IF i \in p.concrete
         THEN UNION {getRangeQueryColumnsFrom(p, i + 1, k \cup ToSearchColumns(sh))
                       : sh \in ShiftLeftOne(i)}
         ELSE getRangeQueryColumnsFrom(p, i + 1, k)

getRangeQueryColumnsHelper(p) == getRangeQueryColumnsFrom(p, 0, {})

\* getRangeQueryColumns(const RamIndexScan*) and (const RamIndexChoice*)
getRangeQueryColumns(q) == getRangeQueryColumnsHelper(q)

NoKeys == [kind |-> "none"]

Keys(bits) == [kind |-> "mask", bits |-> bits]

InitKeys ==
    /\ query \in ValidPatterns
    /\ keys = [scan |-> NoKeys, choice |-> NoKeys]
    /\ IdleIR
    /\ IdleIndex
    /\ IdlePlan
    /\ IdleLoop
    /\ IdleXform
    /\ ndebug = FALSE

\* getRangeQueryColumns(scan), scan an index scan with the pattern
QueryIndexScan ==
    /\ keys.scan = NoKeys
    /\ \E k \in getRangeQueryColumns(query) : keys' = [keys EXCEPT !.scan = Keys(k)]
    /\ UNCHANGED <<query, irVars, indexVars, planVars, loopVars, xformVars>>

\* getRangeQueryColumns(choice), choice an index choice with the pattern
QueryIndexChoice ==
    /\ keys.choice = NoKeys
    /\ \E k \in getRangeQueryColumns(query) : keys' = [keys EXCEPT !.choice = Keys(k)]
    /\ UNCHANGED <<query, irVars, indexVars, planVars, loopVars, xformVars>>

NextKeys == QueryIndexScan \/ QueryIndexChoice

SpecKeys == InitKeys /\ [][NextKeys]_vars

\* C20: for every range pattern, of any length, those of 32 and more
\* columns included, the mask has bit i set if and only if slot i is
\* non-null, for every i below the pattern length, and no bit at or above
\* the pattern length; an IndexScan and an IndexChoice with the same pattern
\* get the same mask.
C20_RangeQueryMask ==
    /\ \A f \in {"scan", "choice"} :
          (DOMAIN keys = {"scan", "choice"} /\ keys[f] # NoKeys) =>
              keys[f].bits = query.concrete
    /\ (DOMAIN keys = {"scan", "choice"} /\ keys.scan # NoKeys /\ keys.choice # NoKeys)
          => keys.scan = keys.choice


\* C21: translating an argument of a shape the translator does not
\* implement (a unary, binary or ternary functor, a counter) is a fatal
\* error: translateValue returns no value for it, in particular not the
\* null result that stands for an unnamed variable.
C21_UnsupportedShapes ==
    (ilast.op = "translateValue" /\ ilast.key.type \in UnsupportedTypes) =>
        ret.kind # "value"

\* the Location getDefinitionPoint returns for a defined variable
DefinitionPointOf(idx, v) == (CHOOSE o \in getDefinitionPoint(idx, v, FALSE) : TRUE).val

\* C27: no ValueIndex operation removes a variable's definition: a variable
\* once defined stays defined; its definition point is one of the locations
\* recorded for it and none of them is smaller in (level, column) order,
\* whatever the labels; and every step leaves the definition point as it is
\* or moves it to a strictly smaller location.
C27_DefinitionPointDescends ==
    [][\A v \in VarNames :
          /\ isDefined(vindex, v) =>
                /\ isDefined(vindex', v)
                /\ \/ DefinitionPointOf(vindex', v) = DefinitionPointOf(vindex, v)
                   \/ LocLess(DefinitionPointOf(vindex', v), DefinitionPointOf(vindex, v))
          /\ isDefined(vindex', v) =>
                /\ v \in DOMAIN refHistory'
                /\ \E j \in 1..Len(refHistory'[v]) :
                      refHistory'[v][j] = DefinitionPointOf(vindex', v)
                /\ \A j \in 1..Len(refHistory'[v]) :
                      ~LocLess(refHistory'[v][j], DefinitionPointOf(vindex', v))]_vars

\* a variable whose definition point has moved below its first location, and
\* for which a location differing from an earlier one in the label only was
\* recorded as well
C27_Witness ==
    \E v \in DOMAIN refHistory :
       /\ isDefined(vindex, v)
       /\ Len(refHistory[v]) = 3
       /\ LocLess(DefinitionPointOf(vindex, v), refHistory[v][1])
       /\ \E i, j \in 1..3 : i < j /\ LocEq(refHistory[v][i], refHistory[v][j])
                                /\ refHistory[v][i] # refHistory[v][j]

\* an aggregator structurally equal to agg has been given a location
HasAggregatorLocation(idx, agg) ==
    \E i \in 1..Len(idx.aggregator_locations) :
       idx.aggregator_locations[i].agg.val = agg.val

\* C29: getAggregatorLocation(a) returns the location of the earliest
\* setAggregatorLocation call for an aggregator structurally equal to a:
\* the first such call fixes the result for every equal aggregator, whatever
\* node it is, and no later call, for an equal aggregator or another, changes
\* it.
C29_FirstAggregatorLocation ==
    [][\A a \in Aggregators :
          IF HasAggregatorLocation(vindex, a)
          THEN getAggregatorLocation(vindex', a, ndebug)
                  = getAggregatorLocation(vindex, a, ndebug)
          ELSE IF ilast'.op = "setAggregatorLocation" /\ ilast'.key.val = a.val
               THEN getAggregatorLocation(vindex', a, ndebug) = {Val(ilast'.loc)}
               ELSE ~HasAggregatorLocation(vindex', a)]_vars

\* the location of an aggregator is asked for after an equal aggregator, a
\* different node, was given one location and the aggregator itself another
C29_Witness ==
    /\ ilast.op = "getAggregatorLocation"
    /\ Len(vindex.aggregator_locations) >= 2
    /\ vindex.aggregator_locations[1].agg.val = ilast.key.val
    /\ vindex.aggregator_locations[1].agg # ilast.key
    /\ vindex.aggregator_locations[2].agg = ilast.key
    /\ vindex.aggregator_locations[2].loc # vindex.aggregator_locations[1].loc
    /\ ret = Val(vindex.aggregator_locations[1].loc)

\* C30: setRecordDefinition(r, l) makes getDefinitionPoint(r) return l, also
\* when r had a definition point before (the most recent call for a record
\* node wins), and changes nothing else: the definition points of the other
\* record nodes, the record unpack levels, the variable references and the
\* aggregator locations are as they were.
C30_SetRecordDefinitionFrame ==
    [][(ilast'.op = "setRecordDefinition" /\ nops' # nops) =>
          /\ getRecordDefinitionPoint(vindex', ilast'.key, ndebug) = {Val(ilast'.loc)}
          /\ \A r \in RecordIds \ {ilast'.key} :
                getRecordDefinitionPoint(vindex', r, ndebug)
                   = getRecordDefinitionPoint(vindex, r, ndebug)
          /\ vindex'.record_unpacks = vindex.record_unpacks
          /\ vindex'.var_references = vindex.var_references
          /\ vindex'.aggregator_locations = vindex.aggregator_locations]_vars

\* a record's definition point is set anew, to another location than it had,
\* while another record has a definition point too
C30_Witness ==
    /\ ilast.op = "setRecordDefinition"
    /\ ilast.old # <<>>
    /\ ilast.old[1] # ilast.loc
    /\ vindex.record_definitions[ilast.key] = ilast.loc
    /\ \E r \in DOMAIN vindex.record_definitions : r # ilast.key

\* every external predecessor of an SCC is internal to an SCC earlier in the
\* order
PredecessorsEarlier(a) ==
    \A j \in DOMAIN a.order :
       \A r \in ExternalPredecessors(a, a.order[j]) :
          \E i \in 1..(j - 1) : r \in a.order[i]

\* C28: with an engine, on an SCC graph whose order puts every external
\* predecessor of an SCC into an earlier SCC, every Load of a relation from
\* the output directory in a stratum is preceded, in an earlier stratum, by
\* a Store of that relation to the output directory with the same extension.
C28_LoadsFollowStores ==
    (config.engine /\ PredecessorsEarlier(ast)) =>
        \A j \in DOMAIN Strata :
           \A k \in DOMAIN Strata[j].body :
              LET s == Strata[j].body[k] IN
              (s.kind = "Load" /\ s.dir = "output-dir") =>
                 \E i \in 1..(j - 1) :
                    \E m \in DOMAIN Strata[i].body :
                       Strata[i].body[m] = RamStore(s.rel, "output-dir", s.ext)

\* a stratum that loads one relation from the output directory as .csv and
\* another as .facts
C28_Witness ==
    /\ config.engine
    /\ pcT = "done"
    /\ \E j \in DOMAIN Strata :
          \E k, m \in DOMAIN Strata[j].body :
             /\ Strata[j].body[k].kind = "Load"
             /\ Strata[j].body[k].dir = "output-dir"
             /\ Strata[j].body[k].ext = ".csv"
             /\ Strata[j].body[m].kind = "Load"
             /\ Strata[j].body[m].dir = "output-dir"
             /\ Strata[j].body[m].ext = ".facts"

(***************************************************************************)
(* translateRecursiveRelation: the semi-naive fixpoint loop of a recursive *)
(* SCC, and the execution of the statement it emits.  A relation holds     *)
(* nodes; a recursive clause derives for its head the nodes found in all   *)
(* of its body relations, or their successors along the edges.             *)
(***************************************************************************)
MaxNode == 3

MaxEdges == 2

Nodes == 1..MaxNode

\* the auxiliary relations created with the prefixes "delta_" and "new_"
Delta(r) == "delta_" \o r

New(r) == "new_" \o r

\* head(y) :- b1(x), ..., bn(x), edge(x, y).   or   head(x) :- b1(x), ..., bn(x).
RecClause(h, body, step) == [head |-> h, body |-> body, step |-> step]

RamFact(r, tuples) == [kind |-> "Fact", rel |-> r, tuples |-> tuples]

RamInsert(target, srcs, notin, step) ==
    [kind |-> "Insert", target |-> target, srcs |-> srcs, notin |-> notin, step |-> step]

RamMerge(dst, src) == [kind |-> "Merge", dst |-> dst, src |-> src]

RamSwap(a, b) == [kind |-> "Swap", first |-> a, second |-> b]

RamClear(r) == [kind |-> "Clear", rel |-> r]

RamExit(empties) == [kind |-> "Exit", empties |-> empties]

RamParallel(arms) == [kind |-> "Parallel", arms |-> arms]

RamLoop(body) == [kind |-> "Loop", body |-> body]

Concat(ss) ==
    LET F[i \in 0..Len(ss)] == IF i = 0 THEN <<>> ELSE F[i - 1] \o ss[i]
    IN F[Len(ss)]

\* a variant that inserts into the relation itself
VariantIntoRelation(cl, j) ==
    RamInsert(cl.head,
              [k \in DOMAIN cl.body |-> IF k = j THEN Delta(cl.body[k]) ELSE cl.body[k]],
              cl.head, cl.step)

\* the variant of a recursive clause whose j-th body atom reads the delta
\* relation: it writes to new_head the tuples not yet in head
Variant(cl, j) ==
    RamInsert(New(cl.head),
              [k \in DOMAIN cl.body |-> IF k = j THEN Delta(cl.body[k]) ELSE cl.body[k]],
              cl.head, cl.step)

\* the arm of the Parallel block for relation r: the variants of its clauses
Arm(r, clauses) ==
    LET mine == SelectSeq(clauses, LAMBDA cl : cl.head = r)
    IN [rel |-> r,
        queries |-> Concat([c \in DOMAIN mine |->
                              [j \in DOMAIN mine[c].body |-> Variant(mine[c], j)]])]

\* the base cases, mirrored into the delta relations
Preamble(rels, base) ==
    Concat([i \in DOMAIN rels |->
              <<RamFact(rels[i], base[rels[i]]), RamMerge(Delta(rels[i]), rels[i])>>])

\* Swap(delta, new), Merge(rel, delta), clear new
UpdateTable(rels) ==
    Concat([i \in DOMAIN rels |->
              <<RamSwap(Delta(rels[i]), New(rels[i])),
                RamMerge(rels[i], Delta(rels[i])),
                RamClear(New(rels[i]))>>])

\* a loop body that tests for the exit after the new_ relations are cleared
LoopBodyExitLast(par, exit, update) == <<par>> \o update \o <<exit>>

\* the loop body: the Parallel block, the exit test, the update
LoopBody(par, exit, update) == <<par, exit>> \o update

translateRecursiveRelation(scc, clauses, base) ==
    [pre |-> Preamble(scc, base),
     loop |-> RamLoop(LoopBody(RamParallel([i \in DOMAIN scc |-> Arm(scc[i], clauses)]),
                               RamExit({New(scc[i]) : i \in DOMAIN scc}),
                               UpdateTable(scc)))]

\* the tuples a query derives
QueryResult(q, st, edges) ==
    LET X == {x \in Nodes : \A k \in DOMAIN q.srcs : x \in st[q.srcs[k]]}
        Y == IF q.step THEN {y \in Nodes : \E x \in X : <<x, y>> \in edges} ELSE X
    IN Y \ st[q.notin]

\* the effect of a statement other than Parallel, Loop and Exit
Exec(s, st, edges) ==
    CASE s.kind = "Fact" -> [st EXCEPT ![s.rel] = @ \cup s.tuples]
      [] s.kind = "Insert" -> [st EXCEPT ![s.target] = @ \cup QueryResult(s, st, edges)]
      [] s.kind = "Merge" -> [st EXCEPT ![s.dst] = @ \cup st[s.src]]
      [] s.kind = "Swap" -> [st EXCEPT ![s.first] = st[s.second], ![s.second] = st[s.first]]
      [] s.kind = "Clear" -> [st EXCEPT ![s.rel] = {}]

\* the recursive SCCs translated: one self-recursive relation; two mutually
\* recursive relations; two relations with a clause of two in-SCC atoms
RecPrograms ==
    { [scc |-> <<"P">>, clauses |-> <<RecClause("P", <<"P">>, TRUE)>>],
      [scc |-> <<"P", "Q">>,
       clauses |-> <<RecClause("P", <<"Q">>, TRUE), RecClause("Q", <<"P">>, TRUE)>>],
      [scc |-> <<"P", "Q">>,
       clauses |-> <<RecClause("P", <<"P", "Q">>, TRUE), RecClause("Q", <<"P">>, FALSE),
                     RecClause("Q", <<"Q">>, TRUE)>>] }

EdgeSets == {E \in SUBSET (Nodes \X Nodes) : Cardinality(E) <= MaxEdges}

BaseSets == {{}, {1}, {2}}

SccRels(rs) == {rs[i] : i \in DOMAIN rs}

AllRels(rs) == UNION {{r, Delta(r), New(r)} : r \in SccRels(rs)}

InitLoop ==
    /\ \E p \in RecPrograms, E \in EdgeSets :
          \E b \in [SccRels(p.scc) -> BaseSets] :
             recin = [scc |-> p.scc, clauses |-> p.clauses, base |-> b, edges |-> E]
    /\ rplan = <<>>
    /\ store = <<>>
    /\ pcL = "start"
    /\ ip = 0
    /\ armPos = <<>>
    /\ iter = 0
    /\ writes = {}
    /\ parEmpty = <<>>
    /\ IdleIR
    /\ IdleIndex
    /\ IdlePlan
    /\ IdleKeys
    /\ IdleXform
    /\ ndebug = FALSE

LoopRest == <<irVars, indexVars, planVars, keysVars, xformVars>>

\* the statement is emitted; the relations are created empty
TranslateRecursive ==
    /\ pcL = "start"
    /\ rplan' = translateRecursiveRelation(recin.scc, recin.clauses, recin.base)
    /\ store' = [r \in AllRels(recin.scc) |-> {}]
    /\ pcL' = "pre"
    /\ ip' = 1
    /\ armPos' = [i \in DOMAIN recin.scc |-> 1]
    /\ UNCHANGED <<recin, iter, writes, parEmpty, LoopRest>>

\* a statement before the loop
StepPreamble ==
    /\ pcL = "pre"
    /\ IF ip <= Len(rplan.pre)
       THEN /\ store' = Exec(rplan.pre[ip], store, recin.edges)
            /\ ip' = ip + 1
            /\ UNCHANGED <<pcL, iter>>
       ELSE /\ pcL' = "loop"
            /\ ip' = 1
            /\ iter' = 1
            /\ UNCHANGED store
    /\ UNCHANGED <<recin, rplan, armPos, writes, parEmpty, LoopRest>>

Body == rplan.loop.body

\* the position after statement ip of the loop body, and the iteration
Advance ==
    IF ip = Len(Body) THEN ip' = 1 /\ iter' = iter + 1
    ELSE ip' = ip + 1 /\ iter' = iter

\* the next query of one arm of the Parallel block, the arms interleaved
StepArm ==
    /\ pcL = "loop"
    /\ Body[ip].kind = "Parallel"
    /\ \E a \in DOMAIN Body[ip].arms :
          LET arm == Body[ip].arms[a] IN
          /\ armPos[a] <= Len(arm.queries)
          /\ store' = Exec(arm.queries[armPos[a]], store, recin.edges)
          /\ writes' = writes \cup {<<arm.rel, arm.queries[armPos[a]].target>>}
          /\ armPos' = [armPos EXCEPT ![a] = @ + 1]
    /\ UNCHANGED <<recin, rplan, pcL, ip, iter, parEmpty, LoopRest>>

\* every arm has finished
EndParallel ==
    /\ pcL = "loop"
    /\ Body[ip].kind = "Parallel"
    /\ \A a \in DOMAIN Body[ip].arms : armPos[a] > Len(Body[ip].arms[a].queries)
    /\ parEmpty' = Append(parEmpty, \A r \in SccRels(recin.scc) : store[New(r)] = {})
    /\ armPos' = [a \in DOMAIN armPos |-> 1]
    /\ Advance
    /\ UNCHANGED <<recin, rplan, store, pcL, writes, LoopRest>>

\* Exit: leaves the loop when all the relations named are empty
StepExit ==
    /\ pcL = "loop"
    /\ Body[ip].kind = "Exit"
    /\ IF \A r \in Body[ip].empties : store[r] = {}
       THEN pcL' = "done" /\ UNCHANGED <<ip, iter>>
       ELSE pcL' = pcL /\ Advance
    /\ UNCHANGED <<recin, rplan, store, armPos, writes, parEmpty, LoopRest>>

\* Swap, Merge, Clear
StepUpdate ==
    /\ pcL = "loop"
    /\ Body[ip].kind \in {"Swap", "Merge", "Clear"}
    /\ store' = Exec(Body[ip], store, recin.edges)
    /\ Advance
    /\ UNCHANGED <<recin, rplan, pcL, armPos, writes, parEmpty, LoopRest>>

NextLoop == TranslateRecursive \/ StepPreamble \/ StepArm \/ EndParallel \/ StepExit \/ StepUpdate

SpecLoop == InitLoop /\ [][NextLoop]_vars

\* the arms of the Parallel block emitted
ParallelArms ==
    IF pcL \in {"idle", "start"} THEN <<>>
    ELSE (CHOOSE s \in {Body[i] : i \in DOMAIN Body} : s.kind = "Parallel").arms

\* C24: in the Parallel block of a recursive SCC every query of the arm of
\* relation Ri inserts into new_Ri, and every write an arm has made went
\* there: not to Ri, not to delta_Ri, not to the new_ relation of another
\* arm, so that no relation is written by two arms, whatever the
\* interleaving.
C24_ArmsWriteOwnNew ==
    /\ \A a \in DOMAIN ParallelArms :
          \A k \in DOMAIN ParallelArms[a].queries :
             ParallelArms[a].queries[k].target = New(ParallelArms[a].rel)
    /\ \A w \in writes : w[2] = New(w[1])
    /\ \A w1, w2 \in writes : w1[1] # w2[1] => w1[2] # w2[2]

\* both arms of a Parallel block have written, one of them when the other
\* was part-way through its queries
C24_Witness ==
    /\ Cardinality({w[1] : w \in writes}) = 2
    /\ pcL = "loop"
    /\ \E a, b \in DOMAIN ParallelArms :
          /\ armPos[a] = 2
          /\ Len(ParallelArms[a].queries) >= 2
          /\ armPos[b] > Len(ParallelArms[b].queries)
    /\ \E r \in SccRels(recin.scc) : store[New(r)] # {}

\* the relations are closed under the recursive clauses
Closed ==
    \A c \in DOMAIN recin.clauses :
       LET cl == recin.clauses[c] IN
       QueryResult(RamInsert(New(cl.head), cl.body, cl.head, cl.step), store, recin.edges) = {}

MaxConj == 2

RelArity(r) == IF r \in {"A", "C"} THEN 1 ELSE 2

RamScan(rel, t) == [kind |-> "Scan", rel |-> rel, ident |-> t]

RamIndexScan(rel, t, pattern) ==
    [kind |-> "IndexScan", rel |-> rel, ident |-> t, pattern |-> pattern]

RamChoice(rel, t, cond) == [kind |-> "Choice", rel |-> rel, ident |-> t, cond |-> cond]

RamIndexChoice(rel, t, pattern, cond) ==
    [kind |-> "IndexChoice", rel |-> rel, ident |-> t, pattern |-> pattern, cond |-> cond]

RamFilter(cond) == [kind |-> "Filter", cond |-> cond]

RamProject(rel, values) == [kind |-> "Project", rel |-> rel, values |-> values]

RamConstraint(op, lhs, rhs) == [kind |-> "Constraint", op |-> op, lhs |-> lhs, rhs |-> rhs]

RamExistenceCheck(rel, pattern) == [kind |-> "ExistenceCheck", rel |-> rel, pattern |-> pattern]

RamEmptinessCheck(rel) == [kind |-> "EmptinessCheck", rel |-> rel]

RamNegation(c) == [kind |-> "Negation", operand |-> c]

\* the elements of s at the positions in K, in order
Pick(s, K) ==
    LET F[n \in 0..Len(s)] ==
          IF n = 0 THEN <<>> ELSE IF n \in K THEN Append(F[n - 1], s[n]) ELSE F[n - 1]
    IN F[Len(s)]

\* RamExpressionLevelAnalysis: the deepest tuple id a value refers to
ExpressionLevel(v) == IF v.type = "ElementAccess" THEN v.ident ELSE -1

\* RamConditionLevelAnalysis: the deepest tuple id a condition depends on
ConditionLevel(c) ==
    LET ls == CASE c.kind = "Constraint" -> {ExpressionLevel(c.lhs), ExpressionLevel(c.rhs)}
                [] c.kind = "ExistenceCheck" ->
                      {ExpressionLevel(c.pattern[i]) : i \in DOMAIN c.pattern} \cup {-1}
                [] OTHER -> {-1}
    IN CHOOSE l \in ls : \A m \in ls : m <= l

ConditionUses(c, t) ==
    CASE c.kind = "Constraint" -> ExpressionLevel(c.lhs) = t \/ ExpressionLevel(c.rhs) = t
      [] c.kind = "ExistenceCheck" ->
            \E i \in DOMAIN c.pattern : ExpressionLevel(c.pattern[i]) = t
      [] OTHER -> FALSE

ConjunctsUse(cs, t) == \E k \in DOMAIN cs : ConditionUses(cs[k], t)

PatternUses(p, t) == \E i \in DOMAIN p : ExpressionLevel(p[i]) = t

\* the operation refers to tuple t
OperationUses(op, t) ==
    CASE op.kind = "Filter" -> ConjunctsUse(op.cond, t)
      [] op.kind = "IndexScan" -> PatternUses(op.pattern, t)
      [] op.kind = "Choice" -> ConjunctsUse(op.cond, t)
      [] op.kind = "IndexChoice" -> PatternUses(op.pattern, t) \/ ConjunctsUse(op.cond, t)
      [] op.kind = "Project" -> PatternUses(op.values, t)
      [] OTHER -> FALSE

\* tuple t is referred to by an operation nested in operation i
UsedAfter(q, i, t) == \E j \in (i + 1)..Len(q) : OperationUses(q[j], t)

Introduces(op) == op.kind \in {"Scan", "IndexScan", "Choice", "IndexChoice"}

\* the tuple id of the search enclosing operation i, -1 outside all
EnclosingLevel(q, i) ==
    LET S == {j \in 1..(i - 1) : Introduces(q[j])}
    IN IF S = {} THEN -1 ELSE q[CHOOSE j \in S : \A m \in S : m <= j].ident

Transformed(tree, changed) == [tree |-> tree, changed |-> changed]

\* a conjunct counts as misplaced also when it lies at its own level
MovesAtOwnLevel(q, i, k) ==
    /\ q[i].kind = "Filter"
    /\ ConditionLevel(q[i].cond[k]) <= EnclosingLevel(q, i)
    /\ \E j \in 1..(i - 1) : Introduces(q[j]) /\ q[j].ident = ConditionLevel(q[i].cond[k])

\* LevelConditions: conjunct k of the filter at i lies deeper than the
\* search that introduces the deepest tuple it depends on
Moves(q, i, k) ==
    /\ q[i].kind = "Filter"
    /\ ConditionLevel(q[i].cond[k]) < EnclosingLevel(q, i)
    /\ \E j \in 1..(i - 1) : Introduces(q[j]) /\ q[j].ident = ConditionLevel(q[i].cond[k])

\* the conjuncts hoisted to the search that introduces tuple t
Hoisted(q, t) ==
    Concat([i \in DOMAIN q |->
              IF q[i].kind = "Filter"
              THEN Pick(q[i].cond, {k \in DOMAIN q[i].cond :
                                      Moves(q, i, k) /\ ConditionLevel(q[i].cond[k]) = t})
              ELSE <<>>])

levelConditions(q) ==
    LET out(i) ==
          IF q[i].kind = "Filter"
          THEN LET kept == Pick(q[i].cond, {k \in DOMAIN q[i].cond : ~Moves(q, i, k)})
               IN IF kept = <<>> THEN <<>> ELSE <<RamFilter(kept)>>
          ELSE IF Introduces(q[i]) /\ Hoisted(q, q[i].ident) # <<>>
               THEN <<q[i], RamFilter(Hoisted(q, q[i].ident))>>
               ELSE <<q[i]>>
    IN Transformed(Concat([i \in DOMAIN q |-> out(i)]),
                   \E i \in DOMAIN q : q[i].kind = "Filter"
                                         /\ \E k \in DOMAIN q[i].cond : Moves(q, i, k))

\* getIndexElement: the conjunct is ElementAccess(t, c) = E with E computable
\* before the search of tuple t
Indexable(c, t) ==
    /\ c.kind = "Constraint"
    /\ c.op = "="
    /\ c.lhs.type = "ElementAccess"
    /\ c.lhs.ident = t
    /\ ExpressionLevel(c.rhs) < t

\* of the equalities that bind one column the last goes into the pattern
IndexedLast(cond, t) ==
    {k \in DOMAIN cond :
       /\ Indexable(cond[k], t)
       /\ \A j \in (k + 1)..Len(cond) :
             ~(Indexable(cond[j], t) /\ cond[j].lhs.element = cond[k].lhs.element)}

\* the conjuncts that go into the pattern: of the equalities that bind one
\* column, the first
Indexed(cond, t) ==
    {k \in DOMAIN cond :
       /\ Indexable(cond[k], t)
       /\ \A j \in 1..(k - 1) :
             ~(Indexable(cond[j], t) /\ cond[j].lhs.element = cond[k].lhs.element)}

\* rewriteScan: the index scan for a scan and the filter nested in it, and
\* the filter of the conjuncts left over, if any
rewriteScan(scan, filter) ==
    LET K == Indexed(filter.cond, scan.ident)
        pattern == [c \in 1..RelArity(scan.rel) |->
                      IF \E k \in K : filter.cond[k].lhs.element = c - 1
                      THEN filter.cond[CHOOSE k \in K :
                                          filter.cond[k].lhs.element = c - 1].rhs
                      ELSE Null]
        residual == Pick(filter.cond, DOMAIN filter.cond \ K)
    IN <<RamIndexScan(scan.rel, scan.ident, pattern)>>
         \o (IF residual = <<>> THEN <<>> ELSE <<RamFilter(residual)>>)

Rewrites(q, i) ==
    /\ i \in DOMAIN q
    /\ i < Len(q)
    /\ q[i].kind = "Scan"
    /\ q[i + 1].kind = "Filter"
    /\ \E k \in DOMAIN q[i + 1].cond : Indexable(q[i + 1].cond[k], q[i].ident)

createIndices(q) ==
    Transformed(Concat([i \in DOMAIN q |->
                          IF Rewrites(q, i) THEN rewriteScan(q[i], q[i + 1])
                          ELSE IF Rewrites(q, i - 1) THEN <<>>
                          ELSE <<q[i]>>]),
                \E i \in DOMAIN q : Rewrites(q, i))

\* ConvertExistenceChecks: the tuple of the search at i is used nowhere
Convertible(q, i) ==
    q[i].kind \in {"Scan", "IndexScan"} /\ ~UsedAfter(q, i, q[i].ident)

ExistenceOf(op) ==
    IF op.kind = "IndexScan" /\ \E c \in DOMAIN op.pattern : op.pattern[c] # Null
    THEN RamExistenceCheck(op.rel, op.pattern)
    ELSE RamNegation(RamEmptinessCheck(op.rel))

RECURSIVE convertFrom(_, _)
convertFrom(q, i) ==
    IF i > Len(q) THEN <<>>
    ELSE LET rest == convertFrom(q, i + 1) IN
         IF Convertible(q, i)
         THEN IF rest # <<>> /\ rest[1].kind = "Filter"
              THEN <<RamFilter(<<ExistenceOf(q[i])>> \o rest[1].cond)>> \o Tail(rest)
              ELSE <<RamFilter(<<ExistenceOf(q[i])>>)>> \o rest
         ELSE <<q[i]>> \o rest

convertExistenceChecks(q) ==
    Transformed(convertFrom(q, 1), \E i \in DOMAIN q : Convertible(q, i))

\* SearchesToChoices: the tuple of the search at i is used by the filter
\* nested in it and by nothing else
Choosable(q, i) ==
    /\ i \in DOMAIN q
    /\ i < Len(q)
    /\ q[i].kind \in {"Scan", "IndexScan"}
    /\ q[i + 1].kind = "Filter"
    /\ ConjunctsUse(q[i + 1].cond, q[i].ident)
    /\ ~UsedAfter(q, i + 1, q[i].ident)

ChoiceOf(op, cond) ==
    IF op.kind = "IndexScan" THEN RamIndexChoice(op.rel, op.ident, op.pattern, cond)
    ELSE RamChoice(op.rel, op.ident, cond)

searchesToChoices(q) ==
    Transformed(Concat([i \in DOMAIN q |->
                          IF Choosable(q, i) THEN <<ChoiceOf(q[i], q[i + 1].cond)>>
                          ELSE IF Choosable(q, i - 1) THEN <<>>
                          ELSE <<q[i]>>]),
                \E i \in DOMAIN q : Choosable(q, i))

\* the transformers in the order the pipeline applies them, by getName()
Transformers ==
    <<"LevelConditionsTransformer", "CreateIndicesTransformer",
      "ConvertExistenceChecksTransformer", "SearchesToChoicesTransformer">>

\* RamTransformer::transform of the transformer named
transform(name, q) ==
    CASE name = "LevelConditionsTransformer" -> levelConditions(q)
      [] name = "CreateIndicesTransformer" -> createIndices(q)
      [] name = "ConvertExistenceChecksTransformer" -> convertExistenceChecks(q)
      [] name = "SearchesToChoicesTransformer" -> searchesToChoices(q)

IterationLimit == 16

\* a round counts as modifying only if its last transformer reports so
RoundModifiedLast(reports) == reports[Len(reports)]

\* some transformer of the round reported a modification
RoundModified(reports) == \E i \in DOMAIN reports : reports[i]

\* the values and the conjuncts of the queries transformed
Elem(t, c) == ElementAccess(t, c, "")

Conjuncts ==
    { RamConstraint("=", Elem(1, 0), Elem(0, 0)),
      RamConstraint("=", Elem(1, 0), Number(1)),
      RamConstraint("=", Elem(1, 1), Elem(0, 0)),
      RamConstraint("=", Elem(0, 0), Number(1)),
      RamConstraint("<", Elem(1, 1), Elem(0, 0)),
      RamConstraint("=", Elem(1, 0), Elem(1, 1)),
      RamNegation(RamEmptinessCheck("E")) }

Conditions == UNION {[1..n -> Conjuncts] : n \in 0..MaxConj}

\* the loop nests the translator emits: a scan of A (tuple 0), a scan of B
\* (tuple 1) with or without a filter, with or without a scan of C (tuple 2)
\* joined to tuple 0, and the projection
Nests ==
    { <<RamScan("A", 0), RamScan("B", 1)>>
        \o (IF cond = <<>> THEN <<>> ELSE <<RamFilter(cond)>>)
        \o (IF third
            THEN <<RamScan("C", 2), RamFilter(<<RamConstraint("=", Elem(2, 0), Elem(0, 0))>>)>>
            ELSE <<>>)
        \o <<RamProject("D", values)>>
      : cond \in Conditions, third \in BOOLEAN,
        values \in {<<Elem(0, 0)>>, <<Elem(0, 0), Elem(1, 1)>>} }

InitXform ==
    /\ xq \in Nests
    /\ xpc = "run"
    /\ xround = 1
    /\ xstep = 1
    /\ xlog = <<>>
    /\ xwarn = FALSE
    /\ twice = [kind |-> "none"]
    /\ IdleIR
    /\ IdleIndex
    /\ IdlePlan
    /\ IdleKeys
    /\ IdleLoop
    /\ ndebug = FALSE

XformRest == <<irVars, indexVars, planVars, keysVars, loopVars>>

\* the next transformer of the round is applied to the program
ApplyTransformer ==
    /\ xpc = "run"
    /\ xstep <= Len(Transformers)
    /\ LET r == transform(Transformers[xstep], xq) IN
       /\ xq' = r.tree
       /\ xlog' = Append(xlog, [name |-> Transformers[xstep], round |-> xround,
                                changed |-> r.changed])
    /\ xstep' = xstep + 1
    /\ UNCHANGED <<xpc, xround, xwarn, twice, XformRest>>

\* the reports of round r
ReportsOf(log, r) ==
    [i \in 1..Len(Transformers) |-> log[(r - 1) * Len(Transformers) + i].changed]

\* the end of a round: stop when nothing was modified, or at the limit
EndRound ==
    /\ xpc = "run"
    /\ xstep > Len(Transformers)
    /\ IF ~RoundModified(ReportsOf(xlog, xround))
       THEN xpc' = "done" /\ UNCHANGED <<xround, xstep, xwarn>>
       ELSE IF xround >= IterationLimit
            THEN xpc' = "done" /\ xwarn' = TRUE /\ UNCHANGED <<xround, xstep>>
            ELSE xpc' = xpc /\ xround' = xround + 1 /\ xstep' = 1 /\ xwarn' = xwarn
    /\ UNCHANGED <<xq, xlog, twice, XformRest>>

\* one transformer applied twice in succession to a copy of the program
ApplyTwice ==
    /\ twice.kind = "none"
    /\ \E n \in DOMAIN Transformers :
          LET first == transform(Transformers[n], xq) IN
          twice' = [kind |-> "applied", name |-> Transformers[n], before |-> xq,
                    first |-> first, second |-> transform(Transformers[n], first.tree)]
    /\ UNCHANGED <<xq, xpc, xround, xstep, xlog, xwarn, XformRest>>

NextPipeline == ApplyTransformer \/ EndRound

NextXform == NextPipeline \/ ApplyTwice

SpecXform == InitXform /\ [][NextXform]_vars

\* the pipeline alone: a loop of synchronous calls, which runs to its end
SpecPipeline == InitXform /\ [][NextPipeline]_vars /\ WF_vars(NextPipeline)

PipelineInv ==
    /\ xround <= IterationLimit
    /\ \A k \in DOMAIN xlog :
          /\ xlog[k].name = Transformers[((k - 1) % Len(Transformers)) + 1]
          /\ xlog[k].round = ((k - 1) \div Len(Transformers)) + 1
    /\ xwarn => xpc = "done"
    /\ xpc = "done" =>
          /\ Len(xlog) = Len(Transformers) * xround
          /\ \A r \in 1..(xround - 1) : \E i \in DOMAIN Transformers : ReportsOf(xlog, r)[i]
          /\ IF \E i \in DOMAIN Transformers : ReportsOf(xlog, xround)[i]
             THEN xround = IterationLimit /\ xwarn
             ELSE ~xwarn

C23_Idempotent ==
    twice.kind = "applied" =>
        /\ ~twice.second.changed
        /\ twice.second.tree = twice.first.tree

\* a transformer was applied twice to a program its first application
\* modified
C23_Witness ==
    /\ twice.kind = "applied"
    /\ twice.first.changed
    /\ twice.first.tree # twice.before
    /\ twice.name = "ConvertExistenceChecksTransformer"
    /\ xround = 2

\* the position in nest q of the search that introduces tuple t
SearchOf(q, t) == CHOOSE j \in DOMAIN q : Introduces(q[j]) /\ q[j].ident = t

\* C26: CreateIndices turns a Scan(R, t) with a nested Filter(cond) that has
\* an equality ElementAccess(t, c) = E with ExpressionLevel(E) < t into an
\* IndexScan(R, t) whose pattern has length arity(R); slot c holds the E of
\* the first such equality for column c and is a wildcard if there is none;
\* the filter nested in the index scan holds exactly the other conjuncts,
\* further equalities for a filled column among them, in their order, and
\* is dropped when none is left.
C26_IndexPattern ==
    (twice.kind = "applied" /\ twice.name = "CreateIndicesTransformer") =>
        LET b == twice.before
            a == twice.first.tree
        IN \A i \in 1..(Len(b) - 1) :
              (b[i].kind = "Scan" /\ b[i + 1].kind = "Filter") =>
                 LET t == b[i].ident
                     cond == b[i + 1].cond
                     eqs(c) == {k \in DOMAIN cond :
                                  /\ cond[k].kind = "Constraint"
                                  /\ cond[k].op = "="
                                  /\ cond[k].lhs = Elem(t, c)
                                  /\ ExpressionLevel(cond[k].rhs) < t}
                     first(c) == CHOOSE k \in eqs(c) : \A m \in eqs(c) : k <= m
                     cols == 0..(RelArity(b[i].rel) - 1)
                     rest == Pick(cond, {k \in DOMAIN cond :
                                           \A c \in cols : eqs(c) = {} \/ k # first(c)})
                     j == SearchOf(a, t)
                 IN IF \A c \in cols : eqs(c) = {}
                    THEN a[j] = b[i] /\ a[j + 1] = b[i + 1]
                    ELSE /\ a[j].kind = "IndexScan"
                         /\ a[j].rel = b[i].rel
                         /\ Len(a[j].pattern) = RelArity(b[i].rel)
                         /\ \A c \in cols :
                               a[j].pattern[c + 1] =
                                  IF eqs(c) = {} THEN Null ELSE cond[first(c)].rhs
                         /\ IF rest # <<>> THEN a[j + 1] = RamFilter(rest)
                            ELSE \/ a[j + 1] = b[i + 2]
                                 \/ /\ b[i + 2].kind = "Scan"
                                    /\ a[j + 1].kind = "IndexScan"
                                    /\ a[j + 1].ident = b[i + 2].ident

\* CreateIndices met a scan whose filter has two equalities for one column
\* computable before the scan: the first is in the pattern, the second in
\* the filter left over
C26_Witness ==
    /\ twice.kind = "applied"
    /\ twice.name = "CreateIndicesTransformer"
    /\ \E j \in 1..(Len(twice.first.tree) - 1) :
          LET s == twice.first.tree[j]
              f == twice.first.tree[j + 1]
          IN /\ s.kind = "IndexScan"
             /\ f.kind = "Filter"
             /\ \E k \in DOMAIN f.cond :
                   /\ Indexable(f.cond[k], s.ident)
                   /\ s.pattern[f.cond[k].lhs.element + 1] # Null
                   /\ s.pattern[f.cond[k].lhs.element + 1] # f.cond[k].rhs

=============================================================================
